---- MODULE Spec2Model ----
(***************************************************************************)
(* Model of the Rubik's cube engine of garg-tejas/rubiks-solver:           *)
(*   lib/cube-solver.ts         RubiksCubeSolver.  The file declares the   *)
(*                              class twice: at line 485, with all six     *)
(*                              faces wired and the solver the README      *)
(*                              describes, which is what the unsuffixed    *)
(*                              names stand for; and at line 29, whose     *)
(*                              move engine carries the suffix First.      *)
(*   lib/cube-state-manager.ts  CubeStateManager                           *)
(*   lib/computer-vision.ts     validateCubeState, groupSquaresIntoFaces   *)
(*   components/camera-capture.tsx  captureAndAnalyze                      *)
(*                                                                         *)
(* A cube state is a function from the face name to a 3x3 tuple of colour  *)
(* names, faces[f][r+1][c+1] being faces.f[r][c] of the source.  A move    *)
(* token (a JavaScript string) is the tuple of its characters, so that     *)
(* charAt(0) and slice(1) are computed and not assumed.                    *)
(***************************************************************************)
EXTENDS Integers, Sequences, FiniteSets, TLC

\* Longest move log the manager is driven to by applyMove.
MaxLog == 2

\* Largest number of applyMove calls made on the engine alone.
MaxTurns == 2

\* Largest argument given to scrambleCube / scramble.
MaxScramble == 1

\* Largest number of squares the vision pipeline reads with a colour other
\* than the one the solved cube has there.
MaxMisread == 1

\* Largest number of changes made by hand to a state given to the validator.
MaxEdits == 2

\* Largest argument given to scrambleCube when it is called alone.
MaxScrambleAlone == 2

\* Most changes a caller makes to the objects the manager handed out.
MaxHeldEdits == 1

\* Most moves made on the cube page, and most solutions asked for there.
MaxPageMoves == 2

MaxSolutions == 1

VARIABLES
    currentState,       \* CubeStateManager.currentState
    moveHistory,        \* CubeStateManager.moveHistory
    scrambleSequence,   \* CubeStateManager.scrambleSequence
    lastOp,             \* the last manager call: name, argument, thrown or not
    returned,           \* <<value>> returned by the last call, <<>> if none
    engState,           \* engine alone: the state handed from call to call
    engLabels,          \* engine alone: the same calls on a cube of named stickers
    engCall,            \* engine alone: the last call, its token and outcome
    engTurns,           \* engine alone: the number of calls made
    capturePc,          \* position of captureAndAnalyze
    cubeState,          \* camera flow: <<state>> got from analyzeImageWithCV
    captureSolution,    \* camera flow: <<result>> got from solveCube
    delivered,          \* camera flow: what onCubeDetected / toast.error got
    captureCalls,       \* camera flow: the functions this run has called, in order
    valState,           \* validator alone: the hand-made state it is given
    valEdits,           \* validator alone: number of changes made by hand
    valResult,          \* validator alone: <<result>> of validateCubeState
    held,               \* caller of the manager: the object it got from a call
    heldEdits,          \* caller of the manager: changes it made to such objects
    cube3D,             \* cube page: cubeState of the RubiksCube3D component
    currentStep,        \* cube page: currentStep of the component
    isPlaying,          \* cube page: isPlaying of the component
    currentSolution,    \* cube page: <<result>> held by the page, <<>> for null
    pageIsSolved,       \* cube page: isSolved of the page
    isScrambled,        \* cube page: isScrambled of the page
    moveCount,          \* cube page: moveCount of the page
    solutionsUsed,      \* cube page: solutionsUsed of the page
    isAnimating,        \* component: isAnimating
    played,             \* component: the moves playback has passed to makeMove
    playPressedAt,      \* component: currentStep when Play was pressed, -1 before
    template,           \* RubiksCubeSolver.SOLVED_STATE, the object behind createSolvedCube
    scrArg,             \* scrambler alone: the argument of the last scrambleCube call
    scrResult           \* scrambler alone: <<{state, scramble}>> it returned

vars == <<currentState, moveHistory, scrambleSequence, lastOp, returned,
          engState, engLabels, engCall, engTurns,
          capturePc, cubeState, captureSolution, delivered, captureCalls,
          valState, valEdits, valResult, scrArg, scrResult,
          held, heldEdits,
          cube3D, currentStep, isPlaying, currentSolution, pageIsSolved,
          isScrambled, moveCount, solutionsUsed, template,
          isAnimating, played, playPressedAt>>

mgrVars == <<currentState, moveHistory, scrambleSequence, lastOp, returned>>

engVars == <<engState, engLabels, engCall, engTurns>>

camVars == <<capturePc, cubeState, captureSolution, delivered, captureCalls>>

valVars == <<valState, valEdits, valResult>>

scrVars == <<scrArg, scrResult>>

heldVars == <<held, heldEdits>>

tmplVars == <<template>>

playVars == <<isAnimating, played, playPressedAt>>

pageVars == <<cube3D, currentStep, isPlaying, currentSolution, pageIsSolved,
              isScrambled, moveCount, solutionsUsed>>

\* What the calls on one component leave alone: the other components.
notMgrVars ==
    <<engVars, camVars, valVars, scrVars, heldVars, pageVars, tmplVars, playVars>>

notEngVars ==
    <<mgrVars, camVars, valVars, scrVars, heldVars, pageVars, tmplVars, playVars>>

notCamVars ==
    <<mgrVars, engVars, valVars, scrVars, heldVars, pageVars, tmplVars, playVars>>

notValVars ==
    <<mgrVars, engVars, camVars, scrVars, heldVars, pageVars, tmplVars, playVars>>

notScrVars ==
    <<mgrVars, engVars, camVars, valVars, heldVars, pageVars, tmplVars, playVars>>

notHeldVars ==
    <<engVars, camVars, valVars, scrVars, pageVars, tmplVars, playVars>>

notPageVars ==
    <<engVars, camVars, valVars, scrVars, heldVars, tmplVars, playVars>>

----------------------------------------------------------------------------
(* Types of cube-solver.ts                                                 *)

\* Object.keys(state.faces) in insertion order.
FaceOrder == <<"U", "D", "L", "R", "F", "B">>

Face == {"U", "D", "L", "R", "F", "B"}

Color == {"white", "yellow", "red", "orange", "blue", "green"}

Row(c) == <<c, c, c>>

Uniform(c) == <<Row(c), Row(c), Row(c)>>

SOLVED_STATE ==
    [f \in Face |->
        CASE f = "U" -> Uniform("white")
          [] f = "D" -> Uniform("yellow")
          [] f = "L" -> Uniform("orange")
          [] f = "R" -> Uniform("red")
          [] f = "F" -> Uniform("green")
          [] f = "B" -> Uniform("blue")]

\* JSON.parse(JSON.stringify(SOLVED_STATE)): a structure of the same values.
createSolvedCube == [f \in Face |-> [r \in 1..3 |-> [c \in 1..3 |-> SOLVED_STATE[f][r][c]]]]

\* Sequencing: the value v is computed, then Op is applied to it.
Then(v, Op(_)) == CHOOSE r \in {Op(x) : x \in {v}} : TRUE

\* faces.f[r][c] with the source's 0-based indices.
Get(s, f, r, c) == s[f][r + 1][c + 1]

\* faces.f[r][c] = v
Set(s, f, r, c, v) == [s EXCEPT ![f][r + 1][c + 1] = v]

\* faces.f[r] = [...row]
SetRow(s, f, r, row) == [s EXCEPT ![f][r + 1] = row]

\* faces.tf[tr][tc] = faces.sf[sr][sc]
Copy(s, tf, tr, tc, sf, sr, sc) == [s EXCEPT ![tf][tr + 1][tc + 1] = s[sf][sr + 1][sc + 1]]

\* faces.tf[tr] = [...faces.sf[sr]]
CopyRow(s, tf, tr, sf, sr) == [s EXCEPT ![tf][tr + 1] = s[sf][sr + 1]]

----------------------------------------------------------------------------
(* Move tokens                                                             *)

Tok1(f) == <<f>>

TokPrime(f) == <<f, "'">>

Tok2(f) == <<f, "2">>

\* possibleMoves of scrambleCube, in the order of the source.
possibleMoves ==
    << Tok1("R"), TokPrime("R"), Tok2("R"),
       Tok1("L"), TokPrime("L"), Tok2("L"),
       Tok1("U"), TokPrime("U"), Tok2("U"),
       Tok1("D"), TokPrime("D"), Tok2("D"),
       Tok1("F"), TokPrime("F"), Tok2("F"),
       Tok1("B"), TokPrime("B"), Tok2("B") >>

Moves18 == {possibleMoves[i] : i \in 1..Len(possibleMoves)}

\* move.charAt(0): the empty string when the token is empty.
charAt0(move) == IF Len(move) = 0 THEN "" ELSE move[1]

\* move.slice(1)
slice1(move) == IF Len(move) = 0 THEN << >> ELSE Tail(move)

----------------------------------------------------------------------------
(* Move engine: RubiksCubeSolver.rotateAdjacentFaces / rotateFace /       *)
(* applyMove.  The source assigns in place, one facelet after the other;   *)
(* each LET step below is one assignment of the source, in its order,      *)
(* made on the state the previous step left.                               *)

\* Mutant: the U column is not saved before it is overwritten.
rotateAdjacentR_NoTemp(s) ==
    LET s1  == Copy(s,   "U", 0, 2, "F", 0, 2)
        s2  == Copy(s1,  "U", 1, 2, "F", 1, 2)
        s3  == Copy(s2,  "U", 2, 2, "F", 2, 2)
        s4  == Copy(s3,  "F", 0, 2, "D", 0, 2)
        s5  == Copy(s4,  "F", 1, 2, "D", 1, 2)
        s6  == Copy(s5,  "F", 2, 2, "D", 2, 2)
        s7  == Copy(s6,  "D", 0, 2, "B", 2, 0)
        s8  == Copy(s7,  "D", 1, 2, "B", 1, 0)
        s9  == Copy(s8,  "D", 2, 2, "B", 0, 0)
        s10 == Copy(s9,  "B", 0, 0, "U", 2, 2)
        s11 == Copy(s10, "B", 1, 0, "U", 1, 2)
    IN  Copy(s11, "B", 2, 0, "U", 0, 2)

rotateAdjacentR(s) ==
    LET tempR == <<Get(s, "U", 0, 2), Get(s, "U", 1, 2), Get(s, "U", 2, 2)>>
        s1  == Copy(s,   "U", 0, 2, "F", 0, 2)
        s2  == Copy(s1,  "U", 1, 2, "F", 1, 2)
        s3  == Copy(s2,  "U", 2, 2, "F", 2, 2)
        s4  == Copy(s3,  "F", 0, 2, "D", 0, 2)
        s5  == Copy(s4,  "F", 1, 2, "D", 1, 2)
        s6  == Copy(s5,  "F", 2, 2, "D", 2, 2)
        s7  == Copy(s6,  "D", 0, 2, "B", 2, 0)
        s8  == Copy(s7,  "D", 1, 2, "B", 1, 0)
        s9  == Copy(s8,  "D", 2, 2, "B", 0, 0)
        s10 == Set(s9,  "B", 0, 0, tempR[3])
        s11 == Set(s10, "B", 1, 0, tempR[2])
    IN  Set(s11, "B", 2, 0, tempR[1])

\* Mutant: the rows are taken at index 1 instead of 0.
rotateAdjacentU_Row1(s) ==
    LET tempU == s["F"][2]
        s1 == CopyRow(s,  "F", 1, "R", 1)
        s2 == CopyRow(s1, "R", 1, "B", 1)
        s3 == CopyRow(s2, "B", 1, "L", 1)
    IN  SetRow(s3, "L", 1, tempU)

rotateAdjacentU(s) ==
    LET tempU == s["F"][1]
        s1 == CopyRow(s,  "F", 0, "R", 0)
        s2 == CopyRow(s1, "R", 0, "B", 0)
        s3 == CopyRow(s2, "B", 0, "L", 0)
    IN  SetRow(s3, "L", 0, tempU)

rotateAdjacentF(s) ==
    LET tempF == <<Get(s, "U", 2, 0), Get(s, "U", 2, 1), Get(s, "U", 2, 2)>>
        s1  == Copy(s,   "U", 2, 0, "L", 2, 2)
        s2  == Copy(s1,  "U", 2, 1, "L", 1, 2)
        s3  == Copy(s2,  "U", 2, 2, "L", 0, 2)
        s4  == Copy(s3,  "L", 0, 2, "D", 0, 0)
        s5  == Copy(s4,  "L", 1, 2, "D", 0, 1)
        s6  == Copy(s5,  "L", 2, 2, "D", 0, 2)
        s7  == Copy(s6,  "D", 0, 0, "R", 2, 0)
        s8  == Copy(s7,  "D", 0, 1, "R", 1, 0)
        s9  == Copy(s8,  "D", 0, 2, "R", 0, 0)
        s10 == Set(s9,  "R", 0, 0, tempF[1])
        s11 == Set(s10, "R", 1, 0, tempF[2])
    IN  Set(s11, "R", 2, 0, tempF[3])

rotateAdjacentL(s) ==
    LET tempL == <<Get(s, "U", 0, 0), Get(s, "U", 1, 0), Get(s, "U", 2, 0)>>
        s1  == Copy(s,   "U", 0, 0, "B", 2, 2)
        s2  == Copy(s1,  "U", 1, 0, "B", 1, 2)
        s3  == Copy(s2,  "U", 2, 0, "B", 0, 2)
        s4  == Copy(s3,  "B", 0, 2, "D", 2, 0)
        s5  == Copy(s4,  "B", 1, 2, "D", 1, 0)
        s6  == Copy(s5,  "B", 2, 2, "D", 0, 0)
        s7  == Copy(s6,  "D", 0, 0, "F", 0, 0)
        s8  == Copy(s7,  "D", 1, 0, "F", 1, 0)
        s9  == Copy(s8,  "D", 2, 0, "F", 2, 0)
        s10 == Set(s9,  "F", 0, 0, tempL[1])
        s11 == Set(s10, "F", 1, 0, tempL[2])
    IN  Set(s11, "F", 2, 0, tempL[3])

rotateAdjacentD(s) ==
    LET tempD == s["F"][3]
        s1 == CopyRow(s,  "F", 2, "L", 2)
        s2 == CopyRow(s1, "L", 2, "B", 2)
        s3 == CopyRow(s2, "B", 2, "R", 2)
    IN  SetRow(s3, "R", 2, tempD)

\* Mutant: the strips are copied without the reversals between U, R, D, L.
rotateAdjacentB_NoReverse(s) ==
    LET tempB == <<Get(s, "U", 0, 0), Get(s, "U", 0, 1), Get(s, "U", 0, 2)>>
        s1  == Copy(s,   "U", 0, 0, "R", 0, 2)
        s2  == Copy(s1,  "U", 0, 1, "R", 1, 2)
        s3  == Copy(s2,  "U", 0, 2, "R", 2, 2)
        s4  == Copy(s3,  "R", 0, 2, "D", 2, 0)
        s5  == Copy(s4,  "R", 1, 2, "D", 2, 1)
        s6  == Copy(s5,  "R", 2, 2, "D", 2, 2)
        s7  == Copy(s6,  "D", 2, 0, "L", 0, 0)
        s8  == Copy(s7,  "D", 2, 1, "L", 1, 0)
        s9  == Copy(s8,  "D", 2, 2, "L", 2, 0)
        s10 == Set(s9,  "L", 0, 0, tempB[1])
        s11 == Set(s10, "L", 1, 0, tempB[2])
    IN  Set(s11, "L", 2, 0, tempB[3])

rotateAdjacentB(s) ==
    LET tempB == <<Get(s, "U", 0, 0), Get(s, "U", 0, 1), Get(s, "U", 0, 2)>>
        s1  == Copy(s,   "U", 0, 0, "R", 0, 2)
        s2  == Copy(s1,  "U", 0, 1, "R", 1, 2)
        s3  == Copy(s2,  "U", 0, 2, "R", 2, 2)
        s4  == Copy(s3,  "R", 0, 2, "D", 2, 2)
        s5  == Copy(s4,  "R", 1, 2, "D", 2, 1)
        s6  == Copy(s5,  "R", 2, 2, "D", 2, 0)
        s7  == Copy(s6,  "D", 2, 2, "L", 2, 0)
        s8  == Copy(s7,  "D", 2, 1, "L", 1, 0)
        s9  == Copy(s8,  "D", 2, 0, "L", 0, 0)
        s10 == Set(s9,  "L", 0, 0, tempB[3])
        s11 == Set(s10, "L", 1, 0, tempB[2])
    IN  Set(s11, "L", 2, 0, tempB[1])

\* switch (face): the default case only warns and leaves the state alone.
rotateAdjacentFaces(s, face) ==
    CASE face = "R" -> rotateAdjacentR(s)
      [] face = "U" -> rotateAdjacentU(s)
      [] face = "F" -> rotateAdjacentF(s)
      [] face = "L" -> rotateAdjacentL(s)
      [] face = "D" -> rotateAdjacentD(s)
      [] face = "B" -> rotateAdjacentB(s)
      [] OTHER      -> s

\* The file declares class RubiksCubeSolver a second time, higher up; in that
\* declaration the switch has the cases R, U and F only (the same assignments
\* as above) and "Add other faces as needed" before a silent default.
rotateAdjacentFacesFirst(s, face) ==
    CASE face = "R" -> rotateAdjacentR(s)
      [] face = "U" -> rotateAdjacentU(s)
      [] face = "F" -> rotateAdjacentF(s)
      [] OTHER      -> s

\* rotateFace of that declaration: the same text, calling its own
\* rotateAdjacentFaces.
rotateFaceFirst(s, face) ==
    LET temp  == Get(s, face, 0, 0)
        s1 == Copy(s,  face, 0, 0, face, 2, 0)
        s2 == Copy(s1, face, 2, 0, face, 2, 2)
        s3 == Copy(s2, face, 2, 2, face, 0, 2)
        s4 == Set(s3, face, 0, 2, temp)
        temp2 == Get(s4, face, 0, 1)
        s5 == Copy(s4, face, 0, 1, face, 1, 0)
        s6 == Copy(s5, face, 1, 0, face, 2, 1)
        s7 == Copy(s6, face, 2, 1, face, 1, 2)
        s8 == Set(s7, face, 1, 2, temp2)
    IN  rotateAdjacentFacesFirst(s8, face)

\* The two 4-cycles on the turned face itself, then the adjacent strips.
\* Only called with face \in Face: see applyMove for the other case.
rotateFace(s, face) ==
    LET temp  == Get(s, face, 0, 0)
        s1 == Copy(s,  face, 0, 0, face, 2, 0)
        s2 == Copy(s1, face, 2, 0, face, 2, 2)
        s3 == Copy(s2, face, 2, 2, face, 0, 2)
        s4 == Set(s3, face, 0, 2, temp)
        temp2 == Get(s4, face, 0, 1)
        s5 == Copy(s4, face, 0, 1, face, 1, 0)
        s6 == Copy(s5, face, 1, 0, face, 2, 1)
        s7 == Copy(s6, face, 2, 1, face, 1, 2)
        s8 == Set(s7, face, 1, 2, temp2)
    IN  rotateAdjacentFaces(s8, face)

\* Mutant: the counter-clockwise modifier is not recognised.
rotationsOf_NoPrime(modifier) ==
    IF modifier = <<"2">> THEN 2 ELSE 1

\* rotations: 3 for the modifier "'", 2 for "2", 1 for anything else.
rotationsOf(modifier) ==
    IF modifier = <<"'">> THEN 3
    ELSE IF modifier = <<"2">> THEN 2
    ELSE 1

\* for (let i = 0; i < rotations; i++) rotateFace(newState, face): each
\* turn is made on the result of the one before.
RECURSIVE rotateTimes(_, _, _)
rotateTimes(s, face, n) ==
    IF n = 0 THEN s
    ELSE Then(rotateFace(s, face), LAMBDA t : rotateTimes(t, face, n - 1))

\* applyMove(state, move).  state.faces[face] is undefined when the first
\* character is no face name (or the token is empty), and rotateFace then
\* throws a TypeError on faceMatrix[0]: the call has no return value.
\* Result: [threw |-> BOOLEAN, value |-> the returned state (the argument
\* when the call threw)].
applyMove(state, move) ==
    LET face     == charAt0(move)
        modifier == slice1(move)
        rotations == rotationsOf(modifier)
    IN  IF face \notin Face
        THEN [threw |-> TRUE, value |-> state]
        ELSE [threw |-> FALSE, value |-> rotateTimes(state, face, rotations)]

\* Mutant: newState is the argument itself (const newState = state), so the
\* turns are written into the caller's object.
applyMoveObjects_Shared(state, move) ==
    LET r == applyMove(state, move)
    IN  [state |-> r.value, newState |-> r.value, threw |-> r.threw]

\* The two objects of a call of applyMove when it ends.  newState starts as
\* JSON.parse(JSON.stringify(state)), an object of its own with the same
\* facelets, and rotateFace is handed newState only: `state` keeps what it
\* held, `newState` is what is returned.
applyMoveObjects(state, move) ==
    LET copied == [state |-> state, newState |-> state]
        r      == applyMove(copied.newState, move)
    IN  [state |-> copied.state, newState |-> r.value, threw |-> r.threw]

RECURSIVE rotateTimesFirst(_, _, _)
rotateTimesFirst(s, face, n) ==
    IF n = 0 THEN s
    ELSE Then(rotateFaceFirst(s, face), LAMBDA t : rotateTimesFirst(t, face, n - 1))

\* applyMove of the first declaration of the class: the same text as the
\* second, over rotateFace of the first.
applyMoveFirst(state, move) ==
    LET face     == charAt0(move)
        modifier == slice1(move)
        rotations == rotationsOf(modifier)
    IN  IF face \in Face
        THEN [threw |-> FALSE, value |-> rotateTimesFirst(state, face, rotations)]
        ELSE [threw |-> TRUE, value |-> state]

----------------------------------------------------------------------------
(* Solver: RubiksCubeSolver.solveCube and what it calls                    *)

\* The text of an algorithm: its tokens joined by single spaces.
RECURSIVE Join(_)
Join(ts) ==
    IF Len(ts) = 0 THEN << >>
    ELSE IF Len(ts) = 1 THEN ts[1]
    ELSE ts[1] \o <<" ">> \o Join(Tail(ts))

\* "F R U R' U' F'"
AlgOrientFrontTop ==
    Join(<<Tok1("F"), Tok1("R"), Tok1("U"), TokPrime("R"), TokPrime("U"), TokPrime("F")>>)

\* "R U R' U'"
AlgOrientRightTop ==
    Join(<<Tok1("R"), Tok1("U"), TokPrime("R"), TokPrime("U")>>)

\* "B U B' U'"
AlgOrientBackTop ==
    Join(<<Tok1("B"), Tok1("U"), TokPrime("B"), TokPrime("U")>>)

\* "R U R' F' R U R' U' R' F R2 U' R'"
AlgPositionCorners ==
    Join(<<Tok1("R"), Tok1("U"), TokPrime("R"), TokPrime("F"), Tok1("R"), Tok1("U"),
           TokPrime("R"), TokPrime("U"), TokPrime("R"), Tok1("F"), Tok2("R"),
           TokPrime("U"), TokPrime("R")>>)

\* "U R2 U' R2 U'"
AlgPhase2Corners ==
    Join(<<Tok1("U"), Tok2("R"), TokPrime("U"), Tok2("R"), TokPrime("U")>>)

\* "U2 R2 U2 R2 U2"
AlgPhase2Edges ==
    Join(<<Tok2("U"), Tok2("R"), Tok2("U"), Tok2("R"), Tok2("U")>>)

Step(m, d, l) == [move |-> m, description |-> d, layer |-> l]

\* Mutant: the comparison with the centre colour is inverted.
isSolved_Inverted(state) ==
    \A i \in 1..Len(FaceOrder) :
        LET faceColors  == state[FaceOrder[i]]
            centerColor == faceColors[2][2]
        IN  \A r \in 1..3 : \A c \in 1..3 : faceColors[r][c] # centerColor

\* Every facelet of every face equals the centre of its face.
isSolved(state) ==
    \A i \in 1..Len(FaceOrder) :
        LET faceColors  == state[FaceOrder[i]]
            centerColor == faceColors[2][2]
        IN  \A r \in 1..3 : \A c \in 1..3 : faceColors[r][c] = centerColor

\* Array.prototype.sort() on colour names: by UTF-16 code units, which orders
\* the six names blue < green < orange < red < white < yellow.
colorRank(c) ==
    CASE c = "blue"   -> 1
      [] c = "green"  -> 2
      [] c = "orange" -> 3
      [] c = "red"    -> 4
      [] c = "white"  -> 5
      [] c = "yellow" -> 6

\* sort() of a 3-element array of colour names.
sort3(a) ==
    CHOOSE b \in {<<a[p[1]], a[p[2]], a[p[3]]>> :
                    p \in {q \in [1..3 -> 1..3] : {q[1], q[2], q[3]} = {1, 2, 3}}} :
        /\ colorRank(b[1]) <= colorRank(b[2])
        /\ colorRank(b[2]) <= colorRank(b[3])

checkEdgeOrientation(state) ==
    LET frontCenter  == Get(state, "F", 1, 1)
        topCenter    == Get(state, "U", 1, 1)
        frontTopEdge == Get(state, "F", 0, 1)
        topFrontEdge == Get(state, "U", 2, 1)
    IN  \/ (frontTopEdge = frontCenter /\ topFrontEdge = topCenter)
        \/ (frontTopEdge = topCenter /\ topFrontEdge = frontCenter)

\* sort().join('') of both triples are compared; no colour name is a prefix
\* of another, so the joined texts are equal exactly when the sorted arrays are.
checkCornerPositions(state) ==
    LET frontRightTopCorner == <<Get(state, "F", 0, 2), Get(state, "R", 0, 0), Get(state, "U", 2, 2)>>
        centers == <<Get(state, "F", 1, 1), Get(state, "R", 1, 1), Get(state, "U", 1, 1)>>
    IN  sort3(frontRightTopCorner) = sort3(centers)

checkEdgePermutation(state) == isSolved(state)

checkCornerOrientation(state) == isSolved(state)

countSolvedFaces(state) ==
    Cardinality({f \in Face :
        \A r \in 1..3 : \A c \in 1..3 : state[f][r][c] = state[f][2][2]})

\* wrongPieces / totalPieces, kept as the numerator over totalPieces = 54.
calculateScrambleLevel(state) ==
    Cardinality({x \in Face \X (1..3) \X (1..3) :
        state[x[1]][x[2]][x[3]] # state[x[1]][2][2]})

analyzeCubeState(state) ==
    [ edgesOriented     |-> checkEdgeOrientation(state),
      cornersPositioned |-> checkCornerPositions(state),
      edgesPermuted     |-> checkEdgePermutation(state),
      cornersOriented   |-> checkCornerOrientation(state),
      solvedFaces       |-> countSolvedFaces(state),
      scrambleLevel     |-> calculateScrambleLevel(state) ]

\* The list of edge names pushed, in the order of the three tests.
findMisorientedEdges(state) ==
    (IF Get(state, "F", 0, 1) # Get(state, "F", 1, 1) \/ Get(state, "U", 2, 1) # Get(state, "U", 1, 1)
        THEN <<"front-top">> ELSE << >>)
    \o
    (IF Get(state, "R", 0, 1) # Get(state, "R", 1, 1) \/ Get(state, "U", 1, 2) # Get(state, "U", 1, 1)
        THEN <<"right-top">> ELSE << >>)
    \o
    (IF Get(state, "B", 0, 1) # Get(state, "B", 1, 1) \/ Get(state, "U", 0, 1) # Get(state, "U", 1, 1)
        THEN <<"back-top">> ELSE << >>)

includes(list, x) == \E i \in 1..Len(list) : list[i] = x

findWrongPositionCorners(state) ==
    LET frontRightTop  == <<Get(state, "F", 0, 2), Get(state, "R", 0, 0), Get(state, "U", 2, 2)>>
        expectedColors == <<Get(state, "F", 1, 1), Get(state, "R", 1, 1), Get(state, "U", 1, 1)>>
    IN  IF sort3(frontRightTop) # sort3(expectedColors)
        THEN <<"front-right-top">> ELSE << >>

orientEdgesReal(state) ==
    LET badEdges == findMisorientedEdges(state)
    IN  IF Len(badEdges) > 0
        THEN (IF includes(badEdges, "front-top")
                THEN <<Step(AlgOrientFrontTop, "Orient front-top edge", "Edge Orientation")>>
                ELSE << >>)
             \o
             (IF includes(badEdges, "right-top")
                THEN <<Step(AlgOrientRightTop, "Orient right-top edge", "Edge Orientation")>>
                ELSE << >>)
             \o
             (IF includes(badEdges, "back-top")
                THEN <<Step(AlgOrientBackTop, "Orient back-top edge", "Edge Orientation")>>
                ELSE << >>)
        ELSE << >>

positionCornersReal(state) ==
    LET wrongCorners == findWrongPositionCorners(state)
    IN  IF Len(wrongCorners) > 0
        THEN <<Step(AlgPositionCorners, "Position corners for Phase 2", "Corner Positioning")>>
        ELSE << >>

solveCornerPermutationPhase2(state) ==
    <<Step(AlgPhase2Corners, "Permute corners (Phase 2)", "Phase 2 Corners")>>

solveEdgePermutationPhase2(state) ==
    <<Step(AlgPhase2Edges, "Permute edges (Phase 2)", "Phase 2 Edges")>>

\* steps.slice(0, n)
slice0(steps, n) == SubSeq(steps, 1, IF Len(steps) < n THEN Len(steps) ELSE n)

kociembaPhase1Real(state, analysis) ==
    LET steps == (IF ~analysis.edgesOriented THEN orientEdgesReal(state) ELSE << >>)
                 \o
                 (IF ~analysis.cornersPositioned THEN positionCornersReal(state) ELSE << >>)
    IN  slice0(steps, 12)

kociembaPhase2Real(state, analysis) ==
    LET steps == (IF ~analysis.cornersOriented THEN solveCornerPermutationPhase2(state) ELSE << >>)
                 \o
                 (IF ~analysis.edgesPermuted THEN solveEdgePermutationPhase2(state) ELSE << >>)
    IN  slice0(steps, 18)

\* for (const step of steps) state = applyMove(state, step.move), a throw of
\* applyMove ending the loop: [threw, value].
RECURSIVE applySteps(_, _)
applySteps(state, steps) ==
    IF Len(steps) = 0 THEN [threw |-> FALSE, value |-> state]
    ELSE Then(applyMove(state, Head(steps).move),
              LAMBDA r : IF r.threw THEN r ELSE applySteps(r.value, Tail(steps)))

\* estimatedTime is kept in fifths of a second: Math.max(8, totalMoves * 0.4).
\* solutionTime, a wall-clock measurement, is left out.
kociembaAlgorithm(state) ==
    LET cubeAnalysis      == analyzeCubeState(state)
        phase1Steps       == kociembaPhase1Real(state, cubeAnalysis)
        intermediate      == applySteps(state, phase1Steps)
        intermediateState == intermediate.value
        phase2Analysis    == analyzeCubeState(intermediateState)
        phase2Steps       == kociembaPhase2Real(intermediateState, phase2Analysis)
        allSteps          == phase1Steps \o phase2Steps
        totalMoves        == Len(allSteps)
    IN  [ threw |-> intermediate.threw,
          value |->
            [ steps         |-> allSteps,
              totalMoves    |-> totalMoves,
              estimatedTime |-> IF totalMoves * 2 > 40 THEN totalMoves * 2 ELSE 40,
              difficulty    |-> IF totalMoves <= 20 THEN "Easy"
                                ELSE IF totalMoves <= 30 THEN "Medium" ELSE "Hard",
              algorithm     |-> "Kociemba",
              phase1Moves   |-> Len(phase1Steps),
              phase2Moves   |-> Len(phase2Steps) ] ]

\* solveCube(state): [threw, value]; the early return for a solved state.
solveCube(state) ==
    IF isSolved(state)
    THEN [ threw |-> FALSE,
           value |->
             [ steps         |-> << >>,
               totalMoves    |-> 0,
               estimatedTime |-> 0,
               difficulty    |-> "Easy",
               algorithm     |-> "Kociemba",
               phase1Moves   |-> 0,
               phase2Moves   |-> 0 ] ]
    ELSE kociembaAlgorithm(state)

\* The first declaration of the class: its phase 2 reads nothing of the state.
\* "R2 U R U R' U' R' U' R' U R'"
AlgPhase2CornersFirst ==
    Join(<<Tok2("R"), Tok1("U"), Tok1("R"), Tok1("U"), TokPrime("R"), TokPrime("U"),
           TokPrime("R"), TokPrime("U"), TokPrime("R"), Tok1("U"), TokPrime("R")>>)

\* "M2 U M2 U2 M2 U M2"
AlgPhase2EdgesFirst ==
    Join(<<Tok2("M"), Tok1("U"), Tok2("M"), Tok2("U"), Tok2("M"), Tok1("U"), Tok2("M")>>)

solvePhase2Corners(state) ==
    <<Step(AlgPhase2CornersFirst, "Permute corners", "Phase 2 Corners")>>

solvePhase2Edges(state) ==
    <<Step(AlgPhase2EdgesFirst, "Permute last layer edges", "Phase 2 Edges")>>

kociembaPhase2First(state) ==
    slice0(solvePhase2Corners(state) \o solvePhase2Edges(state), 18)

----------------------------------------------------------------------------
(* Scrambler: RubiksCubeSolver.scrambleCube / isOppositeMove               *)

\* Mutant: only a repetition of the very same move is rejected.
isOppositeMove_SameMove(move1, move2) == move1 = move2

isOppositeMove(move1, move2) == charAt0(move1) = charAt0(move2)

\* The move lists the loop can build for `moves` iterations: each iteration
\* draws from possibleMoves until the draw is not rejected by isOppositeMove
\* against the previous move, and pushes it.
RECURSIVE scrambleLists(_)
scrambleLists(moves) ==
    IF moves <= 0 THEN {<< >>}
    ELSE {Append(scramble, possibleMoves[k]) :
            <<scramble, k>> \in
                {x \in scrambleLists(moves - 1) \X (1..Len(possibleMoves)) :
                    ~(Len(x[1]) > 0 /\ isOppositeMove(x[1][Len(x[1])], possibleMoves[x[2]]))}}

\* state = applyMove(state, move) for each move of the list, in order.
RECURSIVE applyAll(_, _)
applyAll(state, moveList) ==
    IF Len(moveList) = 0 THEN state
    ELSE Then(applyMove(state, Head(moveList)).value,
              LAMBDA next : applyAll(next, Tail(moveList)))

\* The results scrambleCube(moves) can return.
scrambleCube(moves) ==
    {[state |-> applyAll(createSolvedCube, scramble), scramble |-> scramble] :
        scramble \in scrambleLists(moves)}

----------------------------------------------------------------------------
(* CubeStateManager                                                        *)

\* Tokens that are none of the 18 moves: "M", "R3", "R U R' U'" and "".
BadTokens == {<<"M">>, <<"R", "3">>, AlgOrientRightTop, << >>}

Tokens == Moves18 \cup BadTokens

Call(op, move, threw) == [op |-> op, move |-> move, threw |-> threw]

\* Mutant: the half turn is not its own inverse, it gets a prime like a
\* clockwise turn.
getInverseMove_NoDouble(move) ==
    LET face     == charAt0(move)
        modifier == slice1(move)
    IN  IF modifier = <<"'">> THEN (IF face = "" THEN << >> ELSE <<face>>)
        ELSE (IF face = "" THEN << >> ELSE <<face>>) \o <<"'">>

getInverseMove(move) ==
    LET face     == charAt0(move)
        modifier == slice1(move)
    IN  IF modifier = <<"'">> THEN (IF face = "" THEN << >> ELSE <<face>>)
        ELSE IF modifier = <<"2">> THEN move
        ELSE (IF face = "" THEN << >> ELSE <<face>>) \o <<"'">>

\* Mutant: the cube counts as solved when no move is logged.
MgrIsSolved_ByLog == Len(moveHistory) = 0

\* JSON.stringify(currentState) === JSON.stringify(createSolvedCube()): both
\* objects list the faces in the same key order, so the texts are equal
\* exactly when every facelet is.
MgrIsSolved == \A f \in Face : \A r \in 1..3 : \A c \in 1..3 :
                    currentState[f][r][c] = createSolvedCube[f][r][c]

\* Mutant: the move is pushed before the engine is called.
mgrApplyMove_PushFirst(cs, mh, move) ==
    LET r == applyMove(cs, move)
    IN  IF r.threw
        THEN [currentState |-> cs, moveHistory |-> Append(mh, move), threw |-> TRUE]
        ELSE [currentState |-> r.value, moveHistory |-> Append(mh, move), threw |-> FALSE]

\* The body of CubeStateManager.applyMove on the fields (cs, mh): the engine
\* is called first, so a throw leaves both fields as they were.
mgrApplyMove(cs, mh, move) ==
    LET r == applyMove(cs, move)
    IN  IF r.threw
        THEN [currentState |-> cs, moveHistory |-> mh, threw |-> TRUE]
        ELSE [currentState |-> r.value, moveHistory |-> Append(mh, move), threw |-> FALSE]

\* Mutant: the move popped is applied again, not its inverse.
mgrUndoLastMove_SameMove(cs, mh) ==
    IF Len(mh) = 0
    THEN [currentState |-> cs, moveHistory |-> mh, threw |-> FALSE, returned |-> <<FALSE>>]
    ELSE LET r == applyMove(cs, mh[Len(mh)])
         IN  [ currentState |-> IF r.threw THEN cs ELSE r.value,
               moveHistory  |-> SubSeq(mh, 1, Len(mh) - 1),
               threw        |-> r.threw,
               returned     |-> IF r.threw THEN << >> ELSE <<TRUE>> ]

\* The body of CubeStateManager.undoLastMove on the fields (cs, mh): the log
\* is popped before the inverse is applied, and the inverse is not pushed.
mgrUndoLastMove(cs, mh) ==
    IF Len(mh) = 0
    THEN [currentState |-> cs, moveHistory |-> mh, threw |-> FALSE, returned |-> <<FALSE>>]
    ELSE LET lastMove    == mh[Len(mh)]
             inverseMove == getInverseMove(lastMove)
             r           == applyMove(cs, inverseMove)
         IN  [ currentState |-> IF r.threw THEN cs ELSE r.value,
               moveHistory  |-> SubSeq(mh, 1, Len(mh) - 1),
               threw        |-> r.threw,
               returned     |-> IF r.threw THEN << >> ELSE <<TRUE>> ]

MgrApplyMove(move) ==
    /\ Len(moveHistory) < MaxLog
    /\ LET a == mgrApplyMove(currentState, moveHistory, move)
       IN  /\ currentState' = a.currentState
           /\ moveHistory' = a.moveHistory
           /\ lastOp' = Call("applyMove", move, a.threw)
    /\ returned' = << >>
    /\ UNCHANGED <<scrambleSequence, notMgrVars>>

MgrScramble(moves) ==
    \E res \in scrambleCube(moves) :
        /\ currentState' = res.state
        /\ scrambleSequence' = res.scramble
        /\ moveHistory' = res.scramble
        /\ lastOp' = Call("scramble", << >>, FALSE)
        /\ returned' = <<res.scramble>>
        /\ UNCHANGED notMgrVars

MgrReset ==
    /\ currentState' = createSolvedCube
    /\ moveHistory' = << >>
    /\ scrambleSequence' = << >>
    /\ lastOp' = Call("reset", << >>, FALSE)
    /\ returned' = << >>
    /\ UNCHANGED notMgrVars

\* Mutant: the undo leaves the log as it was.
MgrUndoLastMove_KeepsLog ==
    /\ LET u == mgrUndoLastMove(currentState, moveHistory)
       IN  /\ currentState' = u.currentState
           /\ moveHistory' = moveHistory
           /\ lastOp' = Call("undoLastMove", << >>, u.threw)
           /\ returned' = u.returned
    /\ UNCHANGED <<scrambleSequence, notMgrVars>>

\* undoLastMove()
MgrUndoLastMove ==
    /\ LET u == mgrUndoLastMove(currentState, moveHistory)
       IN  /\ currentState' = u.currentState
           /\ moveHistory' = u.moveHistory
           /\ lastOp' = Call("undoLastMove", << >>, u.threw)
           /\ returned' = u.returned
    /\ UNCHANGED <<scrambleSequence, notMgrVars>>

\* isSolved()
MgrIsSolvedCall ==
    /\ lastOp' = Call("isSolved", << >>, FALSE)
    /\ returned' = <<MgrIsSolved>>
    /\ UNCHANGED <<currentState, moveHistory, scrambleSequence, notMgrVars>>

\* getSolution(): solveCube on the live state, nothing stored.
MgrGetSolution ==
    /\ LET r == solveCube(currentState)
       IN  /\ lastOp' = Call("getSolution", << >>, r.threw)
           /\ returned' = IF r.threw THEN << >> ELSE <<r.value>>
    /\ UNCHANGED <<currentState, moveHistory, scrambleSequence, notMgrVars>>

\* An object in the hands of a caller of the manager: the call it came from,
\* what it holds, and the field of the manager that is the same object
\* ("none" for an object of its own).
Held(from, value, shares) == [from |-> from, value |-> value, shares |-> shares]

\* Mutant: getCurrentState returns this.currentState itself.
getCurrentState_Live == Held("getCurrentState", currentState, "currentState")

\* getCurrentState(): JSON.parse(JSON.stringify(this.currentState)), a new
\* object with the same facelets.
getCurrentState == Held("getCurrentState", currentState, "none")

\* getMoveHistory(): [...this.moveHistory], a new array of the same tokens.
getMoveHistory == Held("getMoveHistory", moveHistory, "none")

\* getScrambleSequence(): [...this.scrambleSequence].
getScrambleSequence == Held("getScrambleSequence", scrambleSequence, "none")

Getters == {"getCurrentState", "getMoveHistory", "getScrambleSequence"}

\* Mutant: createSolvedCube returns this.SOLVED_STATE itself.
createSolvedCubeObject_Template == Held("createSolvedCube", template, "template")

\* RubiksCubeSolver.createSolvedCube() as a call: JSON.parse(JSON.stringify(
\* this.SOLVED_STATE)), a new object with the facelets SOLVED_STATE has then.
createSolvedCubeObject == Held("createSolvedCube", template, "none")

\* A caller of the static createSolvedCube keeps what it returns.
CallerCreateSolvedCube ==
    /\ held' = createSolvedCubeObject
    /\ UNCHANGED <<mgrVars, heldEdits, notHeldVars>>

MgrGetCurrentState ==
    /\ held' = getCurrentState
    /\ lastOp' = Call("getCurrentState", << >>, FALSE)
    /\ returned' = <<currentState>>
    /\ UNCHANGED <<currentState, moveHistory, scrambleSequence, heldEdits, notHeldVars>>

MgrGetMoveHistory ==
    /\ held' = getMoveHistory
    /\ lastOp' = Call("getMoveHistory", << >>, FALSE)
    /\ returned' = <<moveHistory>>
    /\ UNCHANGED <<currentState, moveHistory, scrambleSequence, heldEdits, notHeldVars>>

MgrGetScrambleSequence ==
    /\ held' = getScrambleSequence
    /\ lastOp' = Call("getScrambleSequence", << >>, FALSE)
    /\ returned' = <<scrambleSequence>>
    /\ UNCHANGED <<currentState, moveHistory, scrambleSequence, heldEdits, notHeldVars>>

\* The places the caller writes at, and the tokens it, and the random
\* generator while it is there, use.
CallerPlaces == {<<"U", 1, 1>>, <<"F", 2, 2>>}

CallerTokens == {<<"R">>, <<"U", "'">>}

\* scramble(moves) with a caller that keeps what it returns: the array
\* returned is the one stored in this.scrambleSequence (this.scrambleSequence
\* = scramble; return scramble), moveHistory gets a copy of it.  The draws
\* of the random generator are taken among CallerTokens.
MgrScrambleKept(moves) ==
    \E res \in scrambleCube(moves) :
        /\ \A i \in 1..Len(res.scramble) : res.scramble[i] \in CallerTokens
        /\ currentState' = res.state
        /\ scrambleSequence' = res.scramble
        /\ moveHistory' = res.scramble
        /\ lastOp' = Call("scramble", << >>, FALSE)
        /\ returned' = <<res.scramble>>
        /\ held' = Held("scramble", res.scramble, "scrambleSequence")
        /\ UNCHANGED <<heldEdits, notHeldVars>>

\* applyMove(move) while the caller holds an object: this.currentState is
\* assigned the object the engine returns, so an object that was the live
\* state no longer is; the push is made on the log array itself, so an
\* object that is the log gets the token too.
MgrApplyMoveHeld(move) ==
    /\ Len(moveHistory) < MaxLog
    /\ LET a == mgrApplyMove(currentState, moveHistory, move)
       IN  /\ currentState' = a.currentState
           /\ moveHistory' = a.moveHistory
           /\ lastOp' = Call("applyMove", move, a.threw)
           /\ held' = IF held.shares = "currentState" /\ ~a.threw
                         THEN [held EXCEPT !.shares = "none"]
                      ELSE IF held.shares = "moveHistory"
                         THEN [held EXCEPT !.value = a.moveHistory]
                      ELSE held
    /\ returned' = << >>
    /\ UNCHANGED <<scrambleSequence, heldEdits, notHeldVars>>

\* reset() while the caller holds an object: the three fields are assigned
\* new objects, so the object held is none of them any more.
MgrResetHeld ==
    /\ currentState' = createSolvedCubeObject.value
    /\ moveHistory' = << >>
    /\ scrambleSequence' = << >>
    /\ lastOp' = Call("reset", << >>, FALSE)
    /\ returned' = << >>
    /\ held' = [held EXCEPT !.shares = "none"]
    /\ UNCHANGED <<heldEdits, notHeldVars>>

\* undoLastMove() while the caller holds an object: the pop is made on the
\* log array itself, this.currentState is assigned the engine's object.
MgrUndoLastMoveHeld ==
    /\ LET u == mgrUndoLastMove(currentState, moveHistory)
       IN  /\ currentState' = u.currentState
           /\ moveHistory' = u.moveHistory
           /\ lastOp' = Call("undoLastMove", << >>, u.threw)
           /\ returned' = u.returned
           /\ held' = IF held.shares = "currentState" /\ Len(moveHistory) > 0 /\ ~u.threw
                         THEN [held EXCEPT !.shares = "none"]
                      ELSE IF held.shares = "moveHistory"
                         THEN [held EXCEPT !.value = u.moveHistory]
                      ELSE held
    /\ UNCHANGED <<scrambleSequence, heldEdits, notHeldVars>>

\* What a caller can make of an object it holds: a facelet of a cube state
\* set to another colour, a token pushed on a list or popped from it.
CallerChangesOf(h) ==
    IF h.from \in {"getCurrentState", "createSolvedCube"}
    THEN {Set(h.value, p[1], p[2], p[3], "red") : p \in CallerPlaces} \ {h.value}
    ELSE {Append(h.value, t) : t \in CallerTokens}
         \cup (IF Len(h.value) > 0 THEN {SubSeq(h.value, 1, Len(h.value) - 1)} ELSE {})

\* The caller changes the object it holds; a field of the manager that is
\* that very object changes with it.
CallerChanges ==
    /\ held.from # "none"
    /\ heldEdits < MaxHeldEdits
    /\ \E v \in CallerChangesOf(held) :
          /\ held' = [held EXCEPT !.value = v]
          /\ currentState' = IF held.shares = "currentState" THEN v ELSE currentState
          /\ moveHistory' = IF held.shares = "moveHistory" THEN v ELSE moveHistory
          /\ scrambleSequence' = IF held.shares = "scrambleSequence" THEN v ELSE scrambleSequence
          /\ template' = IF held.shares = "template" THEN v ELSE template
    /\ heldEdits' = heldEdits + 1
    /\ UNCHANGED <<lastOp, returned, engVars, camVars, valVars, scrVars, pageVars,
                   playVars>>

\* colorNameToHex: the colour map, "#333333" for any other name.
colorNameToHex(colorName) ==
    CASE colorName = "white"  -> "#ffffff"
      [] colorName = "yellow" -> "#ffff00"
      [] colorName = "red"    -> "#ff0000"
      [] colorName = "orange" -> "#ff8c00"
      [] colorName = "blue"   -> "#0000ff"
      [] colorName = "green"  -> "#00ff00"
      [] OTHER                -> "#333333"

\* The switch of getColorFromState: <<row, col>> of the facelet of `face`
\* read for the position (x, y, z).
faceCoordinates(face, x, y, z) ==
    CASE face = "U" -> <<z + 1, x + 1>>
      [] face = "D" -> <<(-z) + 1, x + 1>>
      [] face = "R" -> <<(-y) + 1, z + 1>>
      [] face = "L" -> <<(-y) + 1, (-z) + 1>>
      [] face = "F" -> <<(-y) + 1, x + 1>>
      [] face = "B" -> <<(-y) + 1, (-x) + 1>>
      [] OTHER      -> <<1, 1>>

\* faceMatrix[row]?.[col] || "white", then colorNameToHex.
getColorFromState(state, face, x, y, z) ==
    LET rc == faceCoordinates(face, x, y, z)
        colorName == IF rc[1] \in 0..2 /\ rc[2] \in 0..2
                     THEN Get(state, face, rc[1], rc[2]) ELSE "white"
    IN  colorNameToHex(colorName)

\* colors[0..5]: the R, L, U, D, F, B stickers of the piece, "#333333" where
\* it has none.
getPieceColors(state, x, y, z) ==
    << IF x = 1  THEN getColorFromState(state, "R", x, y, z) ELSE "#333333",
       IF x = -1 THEN getColorFromState(state, "L", x, y, z) ELSE "#333333",
       IF y = 1  THEN getColorFromState(state, "U", x, y, z) ELSE "#333333",
       IF y = -1 THEN getColorFromState(state, "D", x, y, z) ELSE "#333333",
       IF z = 1  THEN getColorFromState(state, "F", x, y, z) ELSE "#333333",
       IF z = -1 THEN getColorFromState(state, "B", x, y, z) ELSE "#333333" >>

getPieceType(x, y, z) ==
    LET nonZeroCount == Cardinality({i \in 1..3 : <<x, y, z>>[i] # 0})
    IN  IF nonZeroCount = 3 THEN "corner"
        ELSE IF nonZeroCount = 2 THEN "edge" ELSE "center"

\* getCubePieces on the live state `state`: the 26 pieces in the order of
\* the three loops, the id being the triple the text is made of.
getCubePieces(state) ==
    LET pos(i) == <<((i - 1) \div 9) - 1, (((i - 1) \div 3) % 3) - 1, ((i - 1) % 3) - 1>>
        piece(i) == [ id       |-> pos(i),
                      position |-> [x |-> pos(i)[1], y |-> pos(i)[2], z |-> pos(i)[3]],
                      colors   |-> getPieceColors(state, pos(i)[1], pos(i)[2], pos(i)[3]),
                      type     |-> getPieceType(pos(i)[1], pos(i)[2], pos(i)[3]) ]
    IN  [k \in 1..26 |-> piece(IF k < 14 THEN k ELSE k + 1)]

----------------------------------------------------------------------------
(* The RubiksCube3D component and the cube page                            *)

Faces3D == {"front", "back", "top", "bottom", "left", "right"}

\* SOLVED_CUBE: nine squares a face, square i of the source at i + 1.
SOLVED_CUBE ==
    [f \in Faces3D |->
        [i \in 1..9 |->
            CASE f = "front"  -> "G"
              [] f = "back"   -> "B"
              [] f = "top"    -> "W"
              [] f = "bottom" -> "Y"
              [] f = "left"   -> "O"
              [] f = "right"  -> "R"]]

\* Mutant: the squares are taken in the order of rotateFaceCounterClockwise.
rotateFaceClockwise_Counter(face) ==
    <<face[3], face[6], face[9], face[2], face[5], face[8], face[1], face[4], face[7]>>

\* [face[6], face[3], face[0], face[7], face[4], face[1], face[8], face[5], face[2]]
rotateFaceClockwise(face) ==
    <<face[7], face[4], face[1], face[8], face[5], face[2], face[9], face[6], face[3]>>

\* newState.f = rotateFaceClockwise(newState.f), n times.
RECURSIVE turnFace3D(_, _, _)
turnFace3D(state, f, n) ==
    IF n = 0 THEN state
    ELSE Then([state EXCEPT ![f] = rotateFaceClockwise(state[f])],
              LAMBDA t : turnFace3D(t, f, n - 1))

\* The three squares of a face at the indices ix of the source.
strip3D(face, ix) == <<face[ix[1] + 1], face[ix[2] + 1], face[ix[3] + 1]>>

\* face[ix[0]] = v[0]; face[ix[1]] = v[1]; face[ix[2]] = v[2]
setStrip3D(face, ix, v) ==
    [face EXCEPT ![ix[1] + 1] = v[1], ![ix[2] + 1] = v[2], ![ix[3] + 1] = v[3]]

\* The twelve assignments of a case of applyMove: temp = a's strip; a's
\* strip = b's; b's = c's; c's = d's; d's = temp.  The four faces differ.
cycleStrips3D(s, a, ai, b, bi, c, ci, d, di) ==
    [s EXCEPT ![a] = setStrip3D(s[a], ai, strip3D(s[b], bi)),
              ![b] = setStrip3D(s[b], bi, strip3D(s[c], ci)),
              ![c] = setStrip3D(s[c], ci, strip3D(s[d], di)),
              ![d] = setStrip3D(s[d], di, strip3D(s[a], ai))]

\* applyMove(move, state) of the component: twelve cases, no default, any
\* other string leaves the copy as it is.
applyMove3D(move, state) ==
    CASE move = <<"R">> ->
           Then(turnFace3D(state, "right", 1), LAMBDA t : cycleStrips3D(t,
               "front", <<2, 5, 8>>, "bottom", <<2, 5, 8>>,
               "back", <<6, 3, 0>>, "top", <<2, 5, 8>>))
      [] move = <<"R", "'">> ->
           Then(turnFace3D(state, "right", 3), LAMBDA t : cycleStrips3D(t,
               "front", <<2, 5, 8>>, "top", <<2, 5, 8>>,
               "back", <<6, 3, 0>>, "bottom", <<2, 5, 8>>))
      [] move = <<"L">> ->
           Then(turnFace3D(state, "left", 1), LAMBDA t : cycleStrips3D(t,
               "front", <<0, 3, 6>>, "top", <<0, 3, 6>>,
               "back", <<8, 5, 2>>, "bottom", <<0, 3, 6>>))
      [] move = <<"L", "'">> ->
           Then(turnFace3D(state, "left", 3), LAMBDA t : cycleStrips3D(t,
               "front", <<0, 3, 6>>, "bottom", <<0, 3, 6>>,
               "back", <<8, 5, 2>>, "top", <<0, 3, 6>>))
      [] move = <<"U">> ->
           Then(turnFace3D(state, "top", 1), LAMBDA t : cycleStrips3D(t,
               "front", <<0, 1, 2>>, "right", <<0, 1, 2>>,
               "back", <<0, 1, 2>>, "left", <<0, 1, 2>>))
      [] move = <<"U", "'">> ->
           Then(turnFace3D(state, "top", 3), LAMBDA t : cycleStrips3D(t,
               "front", <<0, 1, 2>>, "left", <<0, 1, 2>>,
               "back", <<0, 1, 2>>, "right", <<0, 1, 2>>))
      [] move = <<"D">> ->
           Then(turnFace3D(state, "bottom", 1), LAMBDA t : cycleStrips3D(t,
               "front", <<6, 7, 8>>, "left", <<6, 7, 8>>,
               "back", <<6, 7, 8>>, "right", <<6, 7, 8>>))
      [] move = <<"D", "'">> ->
           Then(turnFace3D(state, "bottom", 3), LAMBDA t : cycleStrips3D(t,
               "front", <<6, 7, 8>>, "right", <<6, 7, 8>>,
               "back", <<6, 7, 8>>, "left", <<6, 7, 8>>))
      [] move = <<"F">> ->
           Then(turnFace3D(state, "front", 1), LAMBDA t : cycleStrips3D(t,
               "top", <<6, 7, 8>>, "left", <<8, 5, 2>>,
               "bottom", <<2, 1, 0>>, "right", <<0, 3, 6>>))
      [] move = <<"F", "'">> ->
           Then(turnFace3D(state, "front", 3), LAMBDA t : cycleStrips3D(t,
               "top", <<6, 7, 8>>, "right", <<0, 3, 6>>,
               "bottom", <<2, 1, 0>>, "left", <<8, 5, 2>>))
      [] move = <<"B">> ->
           Then(turnFace3D(state, "back", 1), LAMBDA t : cycleStrips3D(t,
               "top", <<0, 1, 2>>, "right", <<2, 5, 8>>,
               "bottom", <<8, 7, 6>>, "left", <<6, 3, 0>>))
      [] move = <<"B", "'">> ->
           Then(turnFace3D(state, "back", 3), LAMBDA t : cycleStrips3D(t,
               "top", <<0, 1, 2>>, "left", <<6, 3, 0>>,
               "bottom", <<8, 7, 6>>, "right", <<2, 5, 8>>))
      [] OTHER -> state

\* The moves of the manual controls and of scrambleCube.
moves3D ==
    << <<"R">>, <<"R", "'">>, <<"L">>, <<"L", "'">>, <<"U">>, <<"U", "'">>,
       <<"D">>, <<"D", "'">>, <<"F">>, <<"F", "'">>, <<"B">>, <<"B", "'">> >>

Moves3D == {moves3D[i] : i \in 1..Len(moves3D)}

\* for (i < numMoves) newState = applyMove(randomMove, newState)
RECURSIVE applyMoves3D(_, _)
applyMoves3D(moveList, state) ==
    IF Len(moveList) = 0 THEN state
    ELSE Then(applyMove3D(Head(moveList), state),
              LAMBDA t : applyMoves3D(Tail(moveList), t))

\* What the random generator gives scrambleCube: numMoves is 15 to 30, each
\* move one of the twelve.  Taken here: 15 or 16 moves, one move repeated or
\* two moves in turn.
ScrambleLengths == {15, 16}

ScrambleDraws ==
    {[i \in 1..n |-> IF i % 2 = 1 THEN p[1] ELSE p[2]] :
        n \in ScrambleLengths,
        p \in {<<m, m>> : m \in Moves3D} \cup {<<<<"R">>, <<"U">>>>}}

\* Mutant: only the first row of each face is looked at.
uniform3D_FirstRow(state) == \A f \in Faces3D : \A i \in 1..3 : state[f][i] = state[f][1]

\* The page's onCubeStateChange: every face of one colour.
uniform3D(state) == \A f \in Faces3D : \A i \in 1..9 : state[f][i] = state[f][1]

\* scrambleCube of the component, with the page's onCubeStateChange.
Cube3DScramble ==
    \E draw \in ScrambleDraws :
        LET newState == applyMoves3D(draw, SOLVED_CUBE)
        IN  /\ cube3D' = newState
            /\ pageIsSolved' = uniform3D(newState)
            /\ isScrambled' = ~uniform3D(newState)
            /\ currentStep' = 0
            /\ isPlaying' = FALSE
            /\ UNCHANGED <<currentSolution, moveCount, solutionsUsed, mgrVars, notPageVars>>

\* makeMove(move) from a manual control, with the page's onCubeStateChange
\* and onMoveComplete.
Cube3DMakeMove(move) ==
    /\ moveCount < MaxPageMoves
    /\ LET newState == applyMove3D(move, cube3D)
       IN  /\ cube3D' = newState
           /\ pageIsSolved' = uniform3D(newState)
           /\ isScrambled' = ~uniform3D(newState)
    /\ moveCount' = moveCount + 1
    /\ UNCHANGED <<currentStep, isPlaying, currentSolution, solutionsUsed, mgrVars, notPageVars>>

\* resetCube of the component, with the page's onCubeStateChange.
Cube3DReset ==
    /\ cube3D' = SOLVED_CUBE
    /\ pageIsSolved' = uniform3D(SOLVED_CUBE)
    /\ isScrambled' = ~uniform3D(SOLVED_CUBE)
    /\ currentStep' = 0
    /\ isPlaying' = FALSE
    /\ UNCHANGED <<currentSolution, moveCount, solutionsUsed, mgrVars, notPageVars>>

\* handleGetSolution of the page, its button being enabled by isScrambled:
\* cubeManager.getSolution(), the page's manager being used nowhere else.
PageGetSolution ==
    /\ isScrambled
    /\ solutionsUsed < MaxSolutions
    /\ LET r == solveCube(currentState)
       IN  /\ lastOp' = Call("getSolution", << >>, r.threw)
           /\ returned' = IF r.threw THEN << >> ELSE <<r.value>>
           /\ currentSolution' = IF r.threw THEN currentSolution ELSE <<r.value>>
           /\ solutionsUsed' = IF r.threw THEN solutionsUsed ELSE solutionsUsed + 1
    /\ UNCHANGED <<currentState, moveHistory, scrambleSequence, cube3D, currentStep,
                   isPlaying, pageIsSolved, isScrambled, moveCount, notPageVars>>

\* The face of the component that shows a face of the manager's cube, and
\* the letter of a colour.
face3DOf(f) ==
    CASE f = "F" -> "front" [] f = "B" -> "back" [] f = "U" -> "top"
      [] f = "D" -> "bottom" [] f = "L" -> "left" [] f = "R" -> "right"

letterOf(c) ==
    CASE c = "green" -> "G" [] c = "blue" -> "B" [] c = "white" -> "W"
      [] c = "yellow" -> "Y" [] c = "orange" -> "O" [] c = "red" -> "R"

\* A manager's cube state as the component would hold it: row r, column c of
\* a face at square 3 * r + c.
asCube3D(state) ==
    [g \in Faces3D |->
        LET f == CHOOSE x \in Face : face3DOf(x) = g
        IN  [i \in 1..9 |-> letterOf(state[f][((i - 1) \div 3) + 1][((i - 1) % 3) + 1])]]

\* A cube state of cube-solver.ts, whatever its facelets carry, laid out as
\* the component lays a cube out: top, bottom, left, right, front, back
\* [3 * r + c] = U, D, L, R, F, B [r][c].
facelets3D(state) ==
    [g \in Faces3D |->
        LET f == CHOOSE x \in Face : face3DOf(x) = g
        IN  [i \in 1..9 |-> state[f][((i - 1) \div 3) + 1][((i - 1) % 3) + 1]]]

\* solution?.steps.length || 0
totalSteps == IF currentSolution = << >> THEN 0 ELSE Len(currentSolution[1].steps)

\* The step buttons, pressed before Play: setCurrentStep(Math.min(totalSteps,
\* currentStep + 1)), disabled at the last step, and setCurrentStep(Math.max(
\* 0, currentStep - 1)), disabled at step 0.
PlaybackSkipForward ==
    /\ currentSolution # << >>
    /\ playPressedAt = -1
    /\ currentStep < totalSteps
    /\ currentStep' = IF currentStep + 1 < totalSteps THEN currentStep + 1 ELSE totalSteps
    /\ UNCHANGED <<cube3D, isPlaying, currentSolution, pageIsSolved, isScrambled,
                   moveCount, solutionsUsed, playVars, mgrVars, notPageVars>>

PlaybackSkipBack ==
    /\ currentSolution # << >>
    /\ playPressedAt = -1
    /\ currentStep # 0
    /\ currentStep' = IF currentStep - 1 > 0 THEN currentStep - 1 ELSE 0
    /\ UNCHANGED <<cube3D, isPlaying, currentSolution, pageIsSolved, isScrambled,
                   moveCount, solutionsUsed, playVars, mgrVars, notPageVars>>

\* The Play button, pressed once: setIsPlaying(!isPlaying), disabled while
\* isAnimating and at the last step.
PlaybackPressPlay ==
    /\ currentSolution # << >>
    /\ playPressedAt = -1
    /\ ~isAnimating
    /\ currentStep < totalSteps
    /\ isPlaying' = ~isPlaying
    /\ playPressedAt' = currentStep
    /\ UNCHANGED <<cube3D, currentStep, currentSolution, pageIsSolved, isScrambled,
                   moveCount, solutionsUsed, isAnimating, played, mgrVars,
                   engVars, camVars, valVars, scrVars, heldVars, tmplVars>>

\* Mutant: past the last step playNextStep returns without setIsPlaying(false).
PlayNextStep_NoStop ==
    /\ isPlaying
    /\ ~isAnimating
    /\ IF currentSolution = << >> \/ currentStep >= totalSteps
       THEN UNCHANGED <<cube3D, pageIsSolved, isScrambled, moveCount, isAnimating,
                        played, isPlaying>>
       ELSE LET move     == currentSolution[1].steps[currentStep + 1].move
                newState == applyMove3D(move, cube3D)
            IN  /\ isAnimating' = TRUE
                /\ cube3D' = newState
                /\ pageIsSolved' = uniform3D(newState)
                /\ isScrambled' = ~uniform3D(newState)
                /\ moveCount' = moveCount + 1
                /\ played' = Append(played, move)
                /\ UNCHANGED isPlaying
    /\ UNCHANGED <<currentStep, currentSolution, solutionsUsed, playPressedAt, mgrVars,
                   engVars, camVars, valVars, scrVars, heldVars, tmplVars>>

\* The timer of the auto-play effect, set while isPlaying && !isAnimating,
\* runs playNextStep: past the last step it stops playing; else it sets
\* isAnimating and calls makeMove on the move of the step (applyMove,
\* setCubeState, onCubeStateChange, onMoveComplete).
PlayNextStep ==
    /\ isPlaying
    /\ ~isAnimating
    /\ IF currentSolution = << >> \/ currentStep >= totalSteps
       THEN /\ isPlaying' = FALSE
            /\ UNCHANGED <<cube3D, pageIsSolved, isScrambled, moveCount, isAnimating, played>>
       ELSE LET move     == currentSolution[1].steps[currentStep + 1].move
                newState == applyMove3D(move, cube3D)
            IN  /\ isAnimating' = TRUE
                /\ cube3D' = newState
                /\ pageIsSolved' = uniform3D(newState)
                /\ isScrambled' = ~uniform3D(newState)
                /\ moveCount' = moveCount + 1
                /\ played' = Append(played, move)
                /\ UNCHANGED isPlaying
    /\ UNCHANGED <<currentStep, currentSolution, solutionsUsed, playPressedAt, mgrVars,
                   engVars, camVars, valVars, scrVars, heldVars, tmplVars>>

\* The timer playNextStep set: setCurrentStep(prev => prev + 1),
\* setIsAnimating(false).
StepTimerFires ==
    /\ isAnimating
    /\ currentStep' = currentStep + 1
    /\ isAnimating' = FALSE
    /\ UNCHANGED <<cube3D, isPlaying, currentSolution, pageIsSolved, isScrambled,
                   moveCount, solutionsUsed, played, playPressedAt, mgrVars,
                   engVars, camVars, valVars, scrVars, heldVars, tmplVars>>

----------------------------------------------------------------------------
(* computer-vision.ts                                                      *)

colorCount(state, color) ==
    Cardinality({x \in Face \X (1..3) \X (1..3) : state[x[1]][x[2]][x[3]] = color})

expectedColors == <<"white", "yellow", "red", "orange", "blue", "green">>

expectedCenters ==
    [f \in Face |->
        CASE f = "U" -> "white"
          [] f = "D" -> "yellow"
          [] f = "L" -> "orange"
          [] f = "R" -> "red"
          [] f = "F" -> "green"
          [] f = "B" -> "blue"]

\* Mutant: the validation stops at the first violation it finds.
validateCubeState_FirstOnly(state) ==
    LET colorErrors ==
            SelectSeq([i \in 1..Len(expectedColors) |->
                          <<"count", expectedColors[i], colorCount(state, expectedColors[i])>>],
                      LAMBDA e : e[3] # 9)
        centerErrors ==
            SelectSeq([i \in 1..Len(FaceOrder) |->
                          <<"center", FaceOrder[i], Get(state, FaceOrder[i], 1, 1)>>],
                      LAMBDA e : e[3] # expectedCenters[e[2]])
        errors == colorErrors \o centerErrors
    IN  [isValid |-> Len(errors) = 0,
         errors |-> IF Len(errors) = 0 THEN errors ELSE <<errors[1]>>]

\* One error per colour whose count is not 9, then one per face whose centre
\* is not the expected one; an error is kept as <<kind, subject, found>>.
validateCubeState(state) ==
    LET colorErrors ==
            SelectSeq([i \in 1..Len(expectedColors) |->
                          <<"count", expectedColors[i], colorCount(state, expectedColors[i])>>],
                      LAMBDA e : e[3] # 9)
        centerErrors ==
            SelectSeq([i \in 1..Len(FaceOrder) |->
                          <<"center", FaceOrder[i], Get(state, FaceOrder[i], 1, 1)>>],
                      LAMBDA e : e[3] # expectedCenters[e[2]])
        errors == colorErrors \o centerErrors
    IN  [isValid |-> Len(errors) = 0, errors |-> errors]

\* The 18 squares groupSquaresIntoFaces writes, in its order: squares 0..8
\* to U[row][col] and 9..17 to F[row][col], row = floor(i / 3), col = i % 3.
squarePlace(i) ==
    <<IF i < 9 THEN "U" ELSE "F", ((i % 9) \div 3), (i % 9) % 3>>

\* groupSquaresIntoFaces for a list of 18 colours: the solved cube with the
\* U and F faces overwritten.
RECURSIVE writeSquares(_, _, _)
writeSquares(state, colors, i) ==
    IF i >= Len(colors) THEN state
    ELSE LET pl == squarePlace(i)
         IN  writeSquares(Set(state, pl[1], pl[2], pl[3], colors[i + 1]), colors, i + 1)

groupSquaresIntoFaces(colors) == writeSquares(SOLVED_STATE, colors, 0)

\* What the 18 squares show when nothing is misread.
trueSquares == [i \in 1..18 |-> Get(SOLVED_STATE, squarePlace(i - 1)[1], squarePlace(i - 1)[2], squarePlace(i - 1)[3])]

\* Colour lists classifyColor can produce, bounded by MaxMisread differences.
RECURSIVE misreads(_)
misreads(k) ==
    IF k = 0 THEN {trueSquares}
    ELSE misreads(k - 1) \cup
         {[cs EXCEPT ![i] = c] : <<cs, i, c>> \in misreads(k - 1) \X (1..18) \X Color}

DetectedSquares == misreads(MaxMisread)

----------------------------------------------------------------------------
(* camera-capture.tsx: captureAndAnalyze                                   *)

NoDelivery == [kind |-> "none"]

ErrorToast(message) == [kind |-> "toast.error", message |-> message]

\* Up to the await of analyzeImageWithCV.
CaptureBegin ==
    /\ capturePc = "idle"
    /\ \E webcam \in {"missing", "noScreenshot", "image"} :
         CASE webcam = "missing" ->
                /\ delivered' = ErrorToast("Camera not available")
                /\ captureCalls' = << >>
                /\ UNCHANGED <<capturePc, cubeState, captureSolution>>
           [] webcam = "noScreenshot" ->
                /\ delivered' = ErrorToast("Failed to capture image from camera")
                /\ captureCalls' = <<"getScreenshot">>
                /\ cubeState' = << >>
                /\ captureSolution' = << >>
                /\ UNCHANGED capturePc
           [] webcam = "image" ->
                /\ capturePc' = "analyzing"
                /\ captureCalls' = <<"getScreenshot", "analyzeImageWithCV">>
                /\ cubeState' = << >>
                /\ captureSolution' = << >>
                /\ delivered' = NoDelivery
    /\ UNCHANGED notCamVars

\* analyzeImageWithCV throws (OpenCV not loaded, fewer than 18 squares).
CaptureAnalysisFails ==
    /\ capturePc = "analyzing"
    /\ capturePc' = "idle"
    /\ delivered' = ErrorToast("Computer vision analysis failed")
    /\ UNCHANGED <<cubeState, captureSolution, captureCalls>>
    /\ UNCHANGED notCamVars

\* analyzeImageWithCV returns a state; the rest of the handler runs at once:
\* solveCube(cubeState), then onCubeDetected(cubeState, solution).
CaptureAnalysisReturns ==
    /\ capturePc = "analyzing"
    /\ \E colors \in DetectedSquares :
         LET cs == groupSquaresIntoFaces(colors)
             r  == solveCube(cs)
         IN  /\ cubeState' = <<cs>>
             /\ IF r.threw
                THEN /\ captureSolution' = << >>
                     /\ delivered' = ErrorToast("Analysis failed")
                     /\ captureCalls' = Append(captureCalls, "solveCube")
                ELSE /\ captureSolution' = <<r.value>>
                     /\ delivered' = [kind |-> "onCubeDetected"]
                     /\ captureCalls' = captureCalls \o <<"solveCube", "onCubeDetected">>
    /\ capturePc' = "idle"
    /\ UNCHANGED notCamVars

----------------------------------------------------------------------------
(* Places of the facelets, cubies, physical pieces                         *)

Places == Face \X (0..2) \X (0..2)

At(s, p) == Get(s, p[1], p[2], p[3])

\* The places at which two cubes differ.
MovedBetween(s, t) == {p \in Places : At(s, p) # At(t, p)}

\* The three places of each of the 8 corner cubies.
CornerPlaces ==
    { {<<"U", 2, 2>>, <<"F", 0, 2>>, <<"R", 0, 0>>},
      {<<"U", 2, 0>>, <<"F", 0, 0>>, <<"L", 0, 2>>},
      {<<"U", 0, 2>>, <<"B", 0, 0>>, <<"R", 0, 2>>},
      {<<"U", 0, 0>>, <<"B", 0, 2>>, <<"L", 0, 0>>},
      {<<"D", 0, 2>>, <<"F", 2, 2>>, <<"R", 2, 0>>},
      {<<"D", 0, 0>>, <<"F", 2, 0>>, <<"L", 2, 2>>},
      {<<"D", 2, 2>>, <<"B", 2, 0>>, <<"R", 2, 2>>},
      {<<"D", 2, 0>>, <<"B", 2, 2>>, <<"L", 2, 0>>} }

\* The two places of each of the 12 edge cubies.
EdgePlaces ==
    { {<<"U", 2, 1>>, <<"F", 0, 1>>}, {<<"U", 1, 2>>, <<"R", 0, 1>>},
      {<<"U", 0, 1>>, <<"B", 0, 1>>}, {<<"U", 1, 0>>, <<"L", 0, 1>>},
      {<<"D", 0, 1>>, <<"F", 2, 1>>}, {<<"D", 1, 2>>, <<"R", 2, 1>>},
      {<<"D", 2, 1>>, <<"B", 2, 1>>}, {<<"D", 1, 0>>, <<"L", 2, 1>>},
      {<<"F", 1, 2>>, <<"R", 1, 0>>}, {<<"F", 1, 0>>, <<"L", 1, 2>>},
      {<<"B", 1, 0>>, <<"R", 1, 2>>}, {<<"B", 1, 2>>, <<"L", 1, 0>>} }

\* The 8 facelets of a face around its centre.
OwnRing(face) == {p \in Places : p[1] = face /\ <<p[2], p[3]>> # <<1, 1>>}

\* The 12 facelets of the other faces that sit on a cubie of the face.
BorderStrips(face) ==
    {p \in Places :
        /\ p[1] # face
        /\ \E cubie \in CornerPlaces \cup EdgePlaces :
              p \in cubie /\ \E q \in cubie : q[1] = face}

OppositeColors == {{"white", "yellow"}, {"red", "orange"}, {"green", "blue"}}

\* The colours at the places of a cubie are pairwise different and no two
\* of them are the colours of opposite faces.
PhysicalPiece(s, cubie) ==
    \A p \in cubie : \A q \in cubie :
        p # q => (At(s, p) # At(s, q) /\ {At(s, p), At(s, q)} \notin OppositeColors)

\* "R", "U", "R'", "U'" and then "U", "R", "U'", "R'"
SexyThenBack ==
    << Tok1("R"), Tok1("U"), TokPrime("R"), TokPrime("U"),
       Tok1("U"), Tok1("R"), TokPrime("U"), TokPrime("R") >>

----------------------------------------------------------------------------
(* The engine alone: applyMove called on the state the previous call        *)
(* returned, starting from the solved cube.  engLabels is a cube whose      *)
(* facelets carry the name of the place they start at; it goes through the  *)
(* same calls, so it tells where each sticker has gone.                     *)

LabelCube == [f \in Face |-> [r \in 1..3 |-> [c \in 1..3 |-> <<f, r - 1, c - 1>>]]]

EngineApplyMove(move) ==
    /\ engTurns < MaxTurns
    /\ LET r == applyMove(engState, move)
           l == applyMove(engLabels, move)
       IN  /\ engState' = IF r.threw THEN engState ELSE r.value
           /\ engLabels' = IF l.threw THEN engLabels ELSE l.value
           /\ engCall' = Call("applyMove", move, r.threw)
    /\ engTurns' = engTurns + 1
    /\ UNCHANGED notEngVars

\* The same call bound to the first declaration of the class.
EngineApplyMoveFirst(move) ==
    /\ engTurns < MaxTurns
    /\ LET r == applyMoveFirst(engState, move)
           l == applyMoveFirst(engLabels, move)
       IN  /\ engState' = IF r.threw THEN engState ELSE r.value
           /\ engLabels' = IF l.threw THEN engLabels ELSE l.value
           /\ engCall' = Call("applyMove", move, r.threw)
    /\ engTurns' = engTurns + 1
    /\ UNCHANGED notEngVars

\* The two engines side by side: the same move given to applyMove of
\* cube-solver.ts, on the cube of named stickers, and to applyMove of the
\* component, on that cube laid out as the component lays it out.
TwinApplyMove(move) ==
    /\ engTurns < MaxTurns
    /\ LET r == applyMove(engState, move)
           l == applyMove(engLabels, move)
       IN  /\ engState' = IF r.threw THEN engState ELSE r.value
           /\ engLabels' = IF l.threw THEN engLabels ELSE l.value
           /\ engCall' = Call("applyMove", move, r.threw)
    /\ engTurns' = engTurns + 1
    /\ cube3D' = applyMove3D(move, cube3D)
    /\ UNCHANGED <<currentStep, isPlaying, currentSolution, pageIsSolved, isScrambled,
                   moveCount, solutionsUsed, mgrVars, camVars, valVars, scrVars, heldVars,
                   tmplVars, playVars>>

----------------------------------------------------------------------------
(* The validator alone: validateCubeState called on states made by hand    *)
(* from the solved cube.                                                   *)

\* The facelets painted over by hand: three centres and two others.
PaintPlaces == {<<"U", 1, 1>>, <<"F", 1, 1>>, <<"R", 1, 1>>, <<"U", 0, 0>>, <<"D", 2, 1>>}

\* The state with the facelet at place p given the colour c.
Paint(s, p, c) == Set(s, p[1], p[2], p[3], c)

\* The state with the two facelets of an edge cubie exchanged.
FlipEdge(s, cubie) ==
    LET p == CHOOSE x \in cubie : TRUE
        q == CHOOSE x \in cubie : x # p
    IN  Paint(Paint(s, p, At(s, q)), q, At(s, p))

\* A caller prepares the CubeState it will pass: one more facelet painted.
ValidatorPaint(p, c) ==
    /\ valEdits < MaxEdits
    /\ valState' = Paint(valState, p, c)
    /\ valEdits' = valEdits + 1
    /\ valResult' = << >>
    /\ UNCHANGED notValVars

\* A caller prepares the CubeState it will pass: one more edge flipped.
ValidatorFlipEdge(cubie) ==
    /\ valEdits < MaxEdits
    /\ valState' = FlipEdge(valState, cubie)
    /\ valEdits' = valEdits + 1
    /\ valResult' = << >>
    /\ UNCHANGED notValVars

\* validateCubeState(cubeState)
ValidatorValidate ==
    /\ valResult = << >>
    /\ valResult' = <<validateCubeState(valState)>>
    /\ UNCHANGED <<valState, valEdits, notValVars>>

----------------------------------------------------------------------------
(* The scrambler alone: RubiksCubeSolver.scrambleCube(moves)                *)

\* One call; the function is static and keeps nothing from call to call, so
\* a run makes it once.
ScrambleCube(moves) ==
    /\ scrResult = << >>
    /\ scrArg' = moves
    /\ \E res \in scrambleCube(moves) : scrResult' = <<res>>
    /\ UNCHANGED notScrVars

----------------------------------------------------------------------------
(* Specifications                                                          *)

\* new CubeStateManager()
InitManager ==
    /\ currentState = createSolvedCube
    /\ moveHistory = << >>
    /\ scrambleSequence = << >>
    /\ lastOp = Call("constructor", << >>, FALSE)
    /\ returned = << >>

\* The engine alone starts on the cube that the move list `start` makes of
\* the solved one.
InitEngineFrom(start) ==
    /\ engState = applyAll(createSolvedCube, start)
    /\ engLabels = applyAll(LabelCube, start)
    /\ engCall = Call("none", << >>, FALSE)
    /\ engTurns = 0

\* The camera component before the first capture.
InitCapture ==
    /\ capturePc = "idle"
    /\ cubeState = << >>
    /\ captureSolution = << >>
    /\ delivered = NoDelivery
    /\ captureCalls = << >>

\* The validator alone before its first call, the state being the solved one.
InitValidator ==
    /\ valState = createSolvedCube
    /\ valEdits = 0
    /\ valResult = << >>

\* The scrambler alone before its first call.
InitScrambler ==
    /\ scrArg = 0
    /\ scrResult = << >>

InitPage ==
    /\ cube3D = SOLVED_CUBE
    /\ currentStep = 0
    /\ isPlaying = FALSE
    /\ currentSolution = << >>
    /\ pageIsSolved = TRUE
    /\ isScrambled = FALSE
    /\ moveCount = 0
    /\ solutionsUsed = 0

InitTemplate == template = SOLVED_STATE

InitPlay ==
    /\ isAnimating = FALSE
    /\ played = << >>
    /\ playPressedAt = -1

InitHeld ==
    /\ held = Held("none", << >>, "none")
    /\ heldEdits = 0

Init ==
    /\ InitManager /\ InitEngineFrom(<< >>) /\ InitCapture /\ InitValidator
    /\ InitScrambler /\ InitHeld /\ InitPage /\ InitTemplate /\ InitPlay

Next ==
    \/ \E move \in Tokens : MgrApplyMove(move)
    \/ \E moves \in 0..MaxScramble : MgrScramble(moves)
    \/ MgrReset
    \/ MgrUndoLastMove
    \/ MgrGetSolution
    \/ MgrIsSolvedCall

\* One CubeStateManager driven by its callers.
Spec == Init /\ [][Next]_vars

\* A scramble as scrambleCube(12) can draw it, with all six faces and all
\* three modifiers in it.
SampleScramble ==
    << Tok1("R"), TokPrime("U"), Tok2("F"), Tok1("L"), TokPrime("D"), Tok2("B"),
       TokPrime("R"), Tok1("U"), TokPrime("F"), Tok2("L"), Tok1("D"), Tok1("B") >>

\* The states the engine alone is started on: the solved cube and a
\* scrambled one.
EngineStarts == {<< >>, SampleScramble}

InitEngine ==
    /\ InitManager /\ InitCapture /\ InitValidator /\ InitScrambler
    /\ InitHeld /\ InitPage /\ InitTemplate /\ InitPlay
    /\ \E start \in EngineStarts : InitEngineFrom(start)

NextEngine == \E move \in Tokens : EngineApplyMove(move)

\* RubiksCubeSolver.applyMove as a function, called again and again.
SpecEngine == InitEngine /\ [][NextEngine]_vars

NextEngineFirst == \E move \in Tokens : EngineApplyMoveFirst(move)

\* applyMove of the first declaration of the class, called again and again.
SpecEngineFirst == Init /\ [][NextEngineFirst]_vars

NextCapture ==
    \/ CaptureBegin
    \/ CaptureAnalysisFails
    \/ CaptureAnalysisReturns

\* The camera page: captureAndAnalyze, one call after the other.
SpecCapture == Init /\ [][NextCapture]_vars

NextValidator ==
    \/ \E p \in PaintPlaces, c \in Color : ValidatorPaint(p, c)
    \/ \E cubie \in EdgePlaces : ValidatorFlipEdge(cubie)
    \/ ValidatorValidate

\* validateCubeState as a function, called on hand-made states.
SpecValidator == Init /\ [][NextValidator]_vars

NextScrambler == \E moves \in 0..MaxScrambleAlone : ScrambleCube(moves)

\* scrambleCube as a function of its argument.
SpecScrambler == Init /\ [][NextScrambler]_vars

\* The manager and a caller that keeps and changes what it is handed.
NextHeld ==
    \/ \E move \in CallerTokens : MgrApplyMoveHeld(move)
    \/ \E moves \in 0..MaxScramble : MgrScrambleKept(moves)
    \/ MgrResetHeld
    \/ MgrUndoLastMoveHeld
    \/ MgrGetSolution
    \/ CallerCreateSolvedCube
    \/ MgrGetCurrentState
    \/ MgrGetMoveHistory
    \/ MgrGetScrambleSequence
    \/ CallerChanges

SpecHeld == Init /\ [][NextHeld]_vars

\* The two engines start on the same cube of named stickers.
InitTwin ==
    /\ InitManager /\ InitCapture /\ InitValidator /\ InitScrambler /\ InitHeld
    /\ InitTemplate /\ InitPlay
    /\ \E start \in EngineStarts : InitEngineFrom(start)
    /\ cube3D = facelets3D(engLabels)
    /\ currentStep = 0
    /\ isPlaying = FALSE
    /\ currentSolution = << >>
    /\ pageIsSolved = TRUE
    /\ isScrambled = FALSE
    /\ moveCount = 0
    /\ solutionsUsed = 0

NextTwin == \E move \in Moves3D : TwinApplyMove(move)

SpecTwin == InitTwin /\ [][NextTwin]_vars

\* The component given a solution: a cube one move away from solved, with
\* the solution solveCube makes for that cube as its solution prop.
InitPlayback ==
    /\ InitManager /\ InitEngineFrom(<< >>) /\ InitCapture /\ InitValidator
    /\ InitScrambler /\ InitHeld /\ InitTemplate /\ InitPlay
    /\ \E move \in Moves3D :
          /\ cube3D = applyMove3D(move, SOLVED_CUBE)
          /\ currentSolution = <<solveCube(applyMove(createSolvedCube, move).value).value>>
    /\ currentStep = 0
    /\ isPlaying = FALSE
    /\ pageIsSolved = FALSE
    /\ isScrambled = TRUE
    /\ moveCount = 1
    /\ solutionsUsed = 1

\* The step buttons, then Play once, then the timers alone.
NextPlayback ==
    \/ PlaybackSkipForward
    \/ PlaybackSkipBack
    \/ PlaybackPressPlay
    \/ PlayNextStep
    \/ StepTimerFires

SpecPlayback == InitPlayback /\ [][NextPlayback]_vars

\* The same with the two timers of the playback firing when they are set: the
\* timeout of the auto-play effect (100 ms, set again by every render with
\* isPlaying && !isAnimating) and the timeout playNextStep sets.
SpecPlaybackFair ==
    /\ InitPlayback /\ [][NextPlayback]_vars
    /\ WF_vars(PlayNextStep)
    /\ WF_vars(StepTimerFires)

\* The cube page: the component's controls and the page's Get Solution.  The
\* solution handed to the component never has a step (the page's manager is
\* solved at every getSolution), so Play and the step buttons stay disabled.
NextPage ==
    \/ Cube3DScramble
    \/ \E move \in Moves3D : Cube3DMakeMove(move)
    \/ Cube3DReset
    \/ PageGetSolution

SpecPage == Init /\ [][NextPage]_vars

----------------------------------------------------------------------------
(* Properties of the engine alone (SpecEngine)                             *)

\* C1: from every state the engine reaches, each of the 18 moves followed by
\* its inverse (getInverseMove: X <-> X', X2 -> X2) returns a state and gives
\* back the state it started from; and R U R' U' followed by U R U' R' takes
\* the solved cube to the solved cube.
C1_RoundTrip ==
    /\ \A m \in Moves18 :
          LET a == applyMove(engState, m)
              b == applyMove(a.value, getInverseMove(m))
          IN  ~a.threw /\ ~b.threw /\ b.value = engState
    /\ applyAll(createSolvedCube, SexyThenBack) = createSolvedCube

\* R and then R' have been applied to the solved cube, and every sticker is
\* back at its place.
C1_Witness ==
    /\ engTurns = 2
    /\ engCall = Call("applyMove", TokPrime("R"), FALSE)
    /\ engState = createSolvedCube
    /\ engLabels = LabelCube

\* The cubes after one, two and four clockwise quarter turns of a face show
\* a quarter turn of a real cube: exactly the 8 outer facelets of the face
\* and the 12 of its bordering strips are displaced, 20 in all; two turns
\* displace the same 20 (no cycle of length 1 or 2), four turns none (every
\* cycle has length 4); the other 34 stay.
TurnsTwentyInFourCycles(face, t0, t1, t2, t4) ==
    LET moved == MovedBetween(t0, t1)
    IN  /\ moved = OwnRing(face) \cup BorderStrips(face)
        /\ Cardinality(moved) = 20
        /\ Cardinality(Places \ moved) = 34
        /\ MovedBetween(t0, t2) = moved
        /\ t4 = t0

\* C3: for each of the six faces and under either declaration of the engine
\* the file holds, one clockwise quarter turn of the reached state moves
\* exactly the 8 outer facelets of the face and the 12 facelets of the
\* bordering strips, 20 in all, each in a cycle of length 4, and leaves the
\* other 34 facelets in place: no face turns its own 9 facelets only.
C3_QuarterTurn ==
    \A face \in Face :
        LET t1 == applyMove(engLabels, Tok1(face)).value
            t2 == applyMove(t1, Tok1(face)).value
            t4 == applyMove(applyMove(t2, Tok1(face)).value, Tok1(face)).value
            f1 == applyMoveFirst(engLabels, Tok1(face)).value
            f2 == applyMoveFirst(f1, Tok1(face)).value
            f4 == applyMoveFirst(applyMoveFirst(f2, Tok1(face)).value, Tok1(face)).value
        IN  /\ TurnsTwentyInFourCycles(face, engLabels, t1, t2, t4)
            /\ TurnsTwentyInFourCycles(face, engLabels, f1, f2, f4)

\* C4: in every state the engine reaches from the solved cube, each of the
\* six colours is on exactly 9 of the 54 facelets.
C4_ColorCount ==
    \A color \in Color : colorCount(engState, color) = 9

\* A scrambled state: some face shows at least three colours.
C4_Witness ==
    /\ engTurns >= 2
    /\ \E f \in Face : Cardinality({At(engState, p) : p \in {q \in Places : q[1] = f}}) >= 3

\* C5: each of the 18 moves leaves the centre facelet of all six faces as it
\* is, and in every reached state the centres are U white, D yellow, L orange,
\* R red, F green, B blue.
C5_Centres ==
    /\ \A f \in Face : Get(engState, f, 1, 1) = expectedCenters[f]
    /\ \A m \in Moves18 : \A f \in Face :
          Get(applyMove(engState, m).value, f, 1, 1) = Get(engState, f, 1, 1)

\* U2 has just been applied and changed the cube, the centre stickers being
\* the ones that started there.
C5_Witness ==
    /\ engCall = Call("applyMove", Tok2("U"), FALSE)
    /\ engState # createSolvedCube
    /\ \A f \in Face : Get(engLabels, f, 1, 1) = <<f, 1, 1>>

\* C6: in every state the engine reaches, the three facelets of each corner
\* position show three different colours no two of which are opposite, and
\* the two facelets of each edge position two different, non-opposite colours.
C6_PhysicalPieces ==
    /\ \A cubie \in CornerPlaces : PhysicalPiece(engState, cubie)
    /\ \A cubie \in EdgePlaces : PhysicalPiece(engState, cubie)

\* After two turns the corner position U-F-R holds another corner than its
\* own, and the edge position U-F another edge.
C6_Witness ==
    /\ engTurns = 2
    /\ {At(engState, <<"U", 2, 2>>), At(engState, <<"F", 0, 2>>), At(engState, <<"R", 0, 0>>)}
          # {"white", "green", "red"}
    /\ {At(engState, <<"U", 2, 1>>), At(engState, <<"F", 0, 1>>)} # {"white", "green"}

\* C7: a call of applyMove with a token that is none of the 18 moves ends
\* with an error and returns no state.
C7_BadTokenRejected ==
    (engCall.op = "applyMove" /\ engCall.move \notin Moves18) => engCall.threw

\* C22: given the same moves among X and X' for the six faces, the component
\* and the engine of cube-solver.ts hold the same arrangement: each named
\* sticker is at corresponding places of the two cubes.
C22_SameArrangement == facelets3D(engLabels) = cube3D

\* Both have made a counter-clockwise turn of B after another move.
C22_Witness ==
    /\ engTurns >= 2
    /\ engCall.move = TokPrime("B")
    /\ cube3D # facelets3D(LabelCube)

----------------------------------------------------------------------------
(* Properties of the manager and the solver (Spec)                         *)

\* C2: when getSolution has been asked for the non-solved state a scramble
\* produced, applying the moves of the returned steps one after the other
\* to that state gives the solved state.
C2_SolutionSolves ==
    (lastOp.op = "getSolution" /\ moveHistory = scrambleSequence /\ ~MgrIsSolved)
        => /\ ~lastOp.threw
           /\ applySteps(currentState, returned[1].steps)
                 = [threw |-> FALSE, value |-> createSolvedCube]

\* C8: in every state of the manager and for each of the 18 moves m,
\* applyMove(m) followed by undoLastMove() gives back the cube state and the
\* move log as they were, the undo returning true and logging nothing.
C8_ApplyUndo ==
    \A m \in Moves18 :
        LET a == mgrApplyMove(currentState, moveHistory, m)
            u == mgrUndoLastMove(a.currentState, a.moveHistory)
        IN  /\ ~a.threw
            /\ a.moveHistory = Append(moveHistory, m)
            /\ ~u.threw
            /\ u.returned = <<TRUE>>
            /\ u.currentState = currentState
            /\ u.moveHistory = moveHistory

\* A fresh manager after one move and its undo: solved, with an empty log.
C8_Witness ==
    /\ lastOp = Call("undoLastMove", << >>, FALSE)
    /\ returned = <<TRUE>>
    /\ moveHistory = << >>
    /\ scrambleSequence = << >>
    /\ MgrIsSolved

\* C9: getSolution on the solved state returns the early result: no steps,
\* totalMoves, phase1Moves and phase2Moves 0, and the estimated time 0 of the
\* early return, not the floor the two-phase procedure puts in its result.
C9_SolvedEmpty ==
    (lastOp.op = "getSolution" /\ MgrIsSolved)
        => /\ ~lastOp.threw
           /\ Len(returned) = 1
           /\ returned[1].steps = << >>
           /\ returned[1].totalMoves = 0
           /\ returned[1].phase1Moves = 0
           /\ returned[1].phase2Moves = 0
           /\ returned[1].estimatedTime = 0

\* getSolution has been asked on a cube that moves took back to solved, the
\* log being non-empty.
C9_Witness ==
    /\ lastOp.op = "getSolution"
    /\ MgrIsSolved
    /\ Len(moveHistory) = 2
    /\ returned[1].steps = << >>

\* The face turns a step names: the parts of its move text between spaces.
faceTurns(move) ==
    IF Len(move) = 0 THEN 0
    ELSE 1 + Cardinality({i \in 1..Len(move) : move[i] = " "})

\* The face turns named by the steps from the a-th to the b-th.
RECURSIVE faceTurnsOfSteps(_, _, _)
faceTurnsOfSteps(steps, a, b) ==
    IF a > b THEN 0
    ELSE faceTurns(steps[a].move) + faceTurnsOfSteps(steps, a + 1, b)

\* C15: every step of a result of getSolution carries one of the 18 single
\* moves, so that totalMoves, the number of steps, is the number of face
\* turns the steps name.
C15_StepsAreTokens ==
    (lastOp.op = "getSolution" /\ ~lastOp.threw) =>
        LET steps == returned[1].steps
        IN  /\ \A i \in 1..Len(steps) : steps[i].move \in Moves18
            /\ returned[1].totalMoves = Len(steps)
            /\ returned[1].totalMoves = faceTurnsOfSteps(steps, 1, Len(steps))

\* C16: the steps of a result of getSolution name at most 30 face turns, the
\* phase-1 steps (the first phase1Moves of them) at most 12 and the phase-2
\* steps (the others) at most 18.
C16_MoveBounds ==
    (lastOp.op = "getSolution" /\ ~lastOp.threw) =>
        LET steps == returned[1].steps
            p1 == returned[1].phase1Moves
        IN  /\ p1 + returned[1].phase2Moves = Len(steps)
            /\ faceTurnsOfSteps(steps, 1, Len(steps)) <= 30
            /\ faceTurnsOfSteps(steps, 1, p1) <= 12
            /\ faceTurnsOfSteps(steps, p1 + 1, Len(steps)) <= 18

\* C17: isSolved() returns true exactly when every facelet of the live state
\* is the one of the solved cube, whatever the move log holds.
C17_IsSolved ==
    lastOp.op = "isSolved" =>
        /\ ~lastOp.threw
        /\ returned = <<\A p \in Places : At(currentState, p) = At(SOLVED_STATE, p)>>

\* isSolved() has returned true with two moves in the log: a move and then
\* its inverse.
C17_Witness ==
    /\ lastOp.op = "isSolved"
    /\ returned = <<TRUE>>
    /\ Len(moveHistory) = 2
    /\ moveHistory[2] = getInverseMove(moveHistory[1])

C18_GettersHandOutCopies ==
    [][ (held.from \in Getters /\ heldEdits' = heldEdits + 1) =>
          /\ held'.value # held.value
          /\ currentState' = currentState
          /\ moveHistory' = moveHistory
          /\ scrambleSequence' = scrambleSequence ]_vars

\* The caller has changed the cube state it got from getCurrentState after a
\* move: what it holds is no longer the live state.
C18_Witness ==
    /\ held.from = "getCurrentState"
    /\ heldEdits > 0
    /\ Len(moveHistory) > 0
    /\ held.value # currentState

\* C20: on the cube page, once Get Solution has given the page a solution,
\* the live state of the page's manager, which is what was solved, is the
\* cube state the component displays.
C20_SolvesWhatIsDisplayed ==
    currentSolution # << >> => asCube3D(currentState) = cube3D

\* The face turns a move text names: its words between single spaces.
RECURSIVE turnsNamed(_)
turnsNamed(move) ==
    IF Len(move) = 0 THEN << >>
    ELSE LET n == IF \E i \in 1..Len(move) : move[i] = " "
                  THEN (CHOOSE i \in 1..Len(move) :
                            move[i] = " " /\ \A j \in 1..(i - 1) : move[j] # " ") - 1
                  ELSE Len(move)
         IN  <<SubSeq(move, 1, n)>> \o turnsNamed(SubSeq(move, n + 2, Len(move)))

\* The turns of the subgroup of phase 2.
Phase2Turns ==
    {Tok1("U"), TokPrime("U"), Tok2("U"), Tok1("D"), TokPrime("D"), Tok2("D"),
     Tok2("L"), Tok2("R"), Tok2("F"), Tok2("B")}

InPhase2Subgroup(steps) ==
    \A i \in 1..Len(steps) :
        \A j \in 1..Len(turnsNamed(steps[i].move)) :
            turnsNamed(steps[i].move)[j] \in Phase2Turns

\* C21: the phase-2 steps of a result of getSolution (those after the first
\* phase1Moves), and the phase-2 steps the first declaration of the class
\* makes for the same state, name only U, U', U2, D, D', D2, L2, R2, F2, B2.
C21_Phase2Subgroup ==
    (lastOp.op = "getSolution" /\ ~lastOp.threw /\ ~isSolved(currentState)) =>
        /\ InPhase2Subgroup(SubSeq(returned[1].steps, returned[1].phase1Moves + 1,
                                   Len(returned[1].steps)))
        /\ InPhase2Subgroup(kociembaPhase2First(currentState))

\* C23: the object behind createSolvedCube keeps the facelets of the solved
\* cube, so that every call of createSolvedCube returns them; and after
\* reset() the live state is the solved cube and the move log and the
\* scramble sequence are empty.
C23_ResetGivesSolved ==
    /\ template = SOLVED_STATE
    /\ createSolvedCubeObject.value = SOLVED_STATE
    /\ lastOp.op = "reset" =>
          /\ currentState = SOLVED_STATE
          /\ moveHistory = << >>
          /\ scrambleSequence = << >>

\* reset() has been called after a caller wrote into a cube it got from
\* createSolvedCube.
C23_Witness ==
    /\ lastOp.op = "reset"
    /\ held.from = "createSolvedCube"
    /\ heldEdits > 0
    /\ held.value # SOLVED_STATE

\* C24: when makeMove is given a move outside the twelve cases of the
\* component's applyMove, it does not at once leave the displayed cube as it
\* was and report the move as completed.
C24_NoSilentIgnore ==
    [][ (Len(played') = Len(played) + 1 /\ played'[Len(played')] \notin Moves3D) =>
          ~(cube3D' = cube3D /\ moveCount' = moveCount + 1) ]_vars

\* C25: while the move log holds only moves among the 18, the live state is
\* the solved cube with the moves of the log applied in order, so that an
\* empty log means a solved cube; and scramble() leaves as the log and as
\* the scramble sequence the list it returns.
C25_StateIsLogApplied ==
    /\ (\A i \in 1..Len(moveHistory) : moveHistory[i] \in Moves18) =>
          currentState = applyAll(createSolvedCube, moveHistory)
    /\ lastOp.op = "scramble" =>
          (moveHistory = returned[1] /\ scrambleSequence = returned[1])

\* A scramble of one move has been undone: the log is empty again and the
\* cube solved.
C25_Witness ==
    /\ lastOp = Call("undoLastMove", << >>, FALSE)
    /\ returned = <<TRUE>>
    /\ Len(scrambleSequence) = 1
    /\ moveHistory = << >>
    /\ currentState = createSolvedCube

\* The colours a piece shows, and the pairs of colours of opposite faces, as
\* getCubePieces gives them.
shownColors(piece) == {piece.colors[i] : i \in {j \in 1..6 : piece.colors[j] # "#333333"}}

OppositeHex == {{colorNameToHex(c) : c \in pair} : pair \in OppositeColors}

\* The places getColorFromState reads for the piece at (x, y, z).
placesRead(x, y, z) ==
    {<<f, faceCoordinates(f, x, y, z)[1], faceCoordinates(f, x, y, z)[2]>> :
        f \in {g \in Face : \/ (g = "R" /\ x = 1) \/ (g = "L" /\ x = -1)
                            \/ (g = "U" /\ y = 1) \/ (g = "D" /\ y = -1)
                            \/ (g = "F" /\ z = 1) \/ (g = "B" /\ z = -1)}}

\* C26: in every state of the manager, each corner piece of getCubePieces
\* shows three colours and each edge piece two, no two of them the colours
\* of opposite faces, the facelets read for the piece being those of one
\* cubie of the move engine.
C26_PiecesArePhysical ==
    \A k \in 1..26 :
        LET piece == getCubePieces(currentState)[k]
            n == IF piece.type = "corner" THEN 3 ELSE 2
        IN  piece.type \in {"corner", "edge"} =>
              /\ Cardinality(shownColors(piece)) = n
              /\ \A pair \in OppositeHex : ~(pair \subseteq shownColors(piece))
              /\ placesRead(piece.position.x, piece.position.y, piece.position.z)
                    \in CornerPlaces \cup EdgePlaces

\* C27: on every live state of the manager, which moves alone have made from
\* the solved cube, the solver's test (every face shows only its centre
\* colour) and the page's test (every face is of one colour, on the same cube
\* as the component holds it) are true exactly when the manager's comparison
\* with the solved cube is.
C27_SolvedChecksAgree ==
    /\ isSolved(currentState) = MgrIsSolved
    /\ uniform3D(asCube3D(currentState)) = MgrIsSolved

\* applyMove has brought the cube back to solved, with two moves in the log,
\* and the three checks say so; the state before it was one they all reject.
C27_Witness ==
    /\ lastOp.op = "applyMove" /\ ~lastOp.threw
    /\ Len(moveHistory) = 2
    /\ MgrIsSolved /\ isSolved(currentState) /\ uniform3D(asCube3D(currentState))
    /\ LET before == applyMove(createSolvedCube, moveHistory[1]).value
       IN  ~isSolved(before) /\ ~uniform3D(asCube3D(before)) /\ before # createSolvedCube

\* C28: a call of undoLastMove() does not throw; on an empty log it returns
\* false and leaves the cube state, the log and the scramble sequence as they
\* were; on a non-empty log it returns true and the log is the old one
\* without its last entry, the scramble sequence being kept.
C28_UndoOnEmptyLog ==
    [][ lastOp'.op = "undoLastMove" =>
          /\ ~lastOp'.threw
          /\ returned' = <<Len(moveHistory) # 0>>
          /\ scrambleSequence' = scrambleSequence
          /\ IF Len(moveHistory) = 0
             THEN currentState' = currentState /\ moveHistory' = moveHistory
             ELSE moveHistory' = SubSeq(moveHistory, 1, Len(moveHistory) - 1)
       ]_vars

\* undoLastMove() has returned false: the log is empty, a scramble of one
\* move having been undone before, its sequence still stored.
C28_Witness ==
    /\ lastOp = Call("undoLastMove", << >>, FALSE)
    /\ returned = <<FALSE>>
    /\ moveHistory = << >>
    /\ Len(scrambleSequence) = 1
    /\ MgrIsSolved

\* C29: a call of the manager's applyMove throws exactly when the first
\* character of the token is none of the six face letters (the empty token
\* included), and then the live state, the move log and the scramble sequence
\* are as before the call: the token is not in the log.
C29_FailedMoveNotLogged ==
    [][ lastOp'.op = "applyMove" =>
          /\ lastOp'.threw = (charAt0(lastOp'.move) \notin Face)
          /\ lastOp'.threw =>
                /\ currentState' = currentState
                /\ moveHistory' = moveHistory
                /\ scrambleSequence' = scrambleSequence
       ]_vars

\* applyMove("M") has thrown on a manager that had taken one move: the log
\* still holds that move alone and the cube is the turned one.
C29_Witness ==
    /\ lastOp = Call("applyMove", <<"M">>, TRUE)
    /\ Len(moveHistory) = 1
    /\ moveHistory[1] \in Moves18
    /\ currentState = applyMove(createSolvedCube, moveHistory[1]).value
    /\ ~MgrIsSolved

\* The moves of the n steps of the solution after step index i.
movesOfSteps(i, n) ==
    IF i < 0 THEN << >> ELSE [j \in 1..n |-> currentSolution[1].steps[i + j].move]

\* C30: currentStep stays within 0..k; once Play has been pressed at step
\* index i, the moves handed to makeMove are those of the steps i, i + 1, ...
\* in order, one for each step passed (and one for the step being animated);
\* and the playback comes to a stop with currentStep = k, isPlaying false and
\* the steps i .. k - 1 each handed over once.
C30_PlaybackRunsToEnd ==
    /\ [](currentStep \in 0..totalSteps)
    /\ [](IF playPressedAt = -1
          THEN played = << >>
          ELSE played = movesOfSteps(playPressedAt,
                           (currentStep - playPressedAt) + (IF isAnimating THEN 1 ELSE 0)))
    /\ (playPressedAt # -1) ~>
          [](/\ playPressedAt # -1
             /\ ~isPlaying /\ ~isAnimating
             /\ currentStep = totalSteps
             /\ played = movesOfSteps(playPressedAt, totalSteps - playPressedAt))

\* Play was pressed at step 1, after a step forward, and the playback has
\* stopped at the last step with the steps 1 .. k - 1 handed to makeMove.
C30_Witness ==
    /\ playPressedAt = 1
    /\ ~isPlaying /\ ~isAnimating
    /\ currentStep = totalSteps
    /\ totalSteps >= 3
    /\ played = movesOfSteps(1, totalSteps - 1)

----------------------------------------------------------------------------
(* Properties of the camera flow (SpecCapture)                             *)

\* C10: when the state got from the image is one validateCubeState rejects,
\* solveCube reports an error and no list of steps is handed on.
C10_InvalidRejected ==
    (Len(cubeState) = 1 /\ ~validateCubeState(cubeState[1]).isValid)
        => (captureSolution = << >> /\ delivered.kind = "toast.error")

\* C13: in every run of captureAndAnalyze, a call of solveCube comes after
\* a call of validateCubeState on the state got from the image, and that
\* state is one the validator accepts.
C13_ValidatedBeforeSolve ==
    \A i \in 1..Len(captureCalls) :
        captureCalls[i] = "solveCube" =>
            /\ \E j \in 1..(i - 1) : captureCalls[j] = "validateCubeState"
            /\ validateCubeState(cubeState[1]).isValid

----------------------------------------------------------------------------
(* Properties of the validator (SpecValidator)                             *)

\* The colours that are not on exactly 9 of the 54 facelets of s.
MiscountedColors(s) == {c \in Color : Cardinality({p \in Places : At(s, p) = c}) # 9}

\* The faces of s whose centre has not the colour it has on the solved cube.
WrongCentres(s) == {f \in Face : At(s, <<f, 1, 1>>) # At(SOLVED_STATE, <<f, 1, 1>>)}

\* The errors of one kind in a list of errors, as the set of their positions.
ErrorsOfKind(errors, kind) == {i \in 1..Len(errors) : errors[i][1] = kind}

\* C11: when validateCubeState has been called on the solved cube with
\* exactly one edge flipped, the result has isValid false and at least one
\* error (the parity violation).
C11_EdgeFlipRejected ==
    (valResult # << >> /\ \E cubie \in EdgePlaces : valState = FlipEdge(createSolvedCube, cubie))
        => (~valResult[1].isValid /\ Len(valResult[1].errors) > 0)

\* C12: the result of validateCubeState holds exactly one count error for
\* each colour that is not on 9 facelets and exactly one centre error for
\* each face whose centre is not its assigned colour, nothing else, and
\* isValid is true exactly when the list of errors is empty.
C12_AllViolations ==
    valResult # << >> =>
        LET errors == valResult[1].errors
            counts == ErrorsOfKind(errors, "count")
            centers == ErrorsOfKind(errors, "center")
        IN  /\ {errors[i][2] : i \in counts} = MiscountedColors(valState)
            /\ Cardinality(counts) = Cardinality(MiscountedColors(valState))
            /\ {errors[i][2] : i \in centers} = WrongCentres(valState)
            /\ Cardinality(centers) = Cardinality(WrongCentres(valState))
            /\ counts \cup centers = 1..Len(errors)
            /\ valResult[1].isValid <=> (errors = << >>)

\* A state with a centre painted over has been validated: two colours are
\* miscounted and a centre is wrong, which makes three errors or more.
C12_Witness ==
    /\ valResult # << >>
    /\ Cardinality(MiscountedColors(valState)) >= 2
    /\ WrongCentres(valState) # {}
    /\ Len(valResult[1].errors) >= 3
    /\ ~valResult[1].isValid

----------------------------------------------------------------------------
(* Properties of the scrambler (SpecScrambler)                             *)

\* C14: what scrambleCube(n) returned is a list of exactly n moves, each one
\* of the 18, no two neighbours on the same face, and the state that these
\* moves, applied in order, make of the solved cube; for n = 0 the empty
\* list and the solved state.
C14_Scramble ==
    scrResult # << >> =>
        LET scramble == scrResult[1].scramble
            state == scrResult[1].state
        IN  /\ Len(scramble) = scrArg
            /\ \A i \in 1..Len(scramble) : scramble[i] \in Moves18
            /\ \A i \in 1..(Len(scramble) - 1) : scramble[i][1] # scramble[i + 1][1]
            /\ state = applyAll(createSolvedCube, scramble)
            /\ scrArg = 0 => (scramble = << >> /\ state = createSolvedCube)

\* scrambleCube(2) has returned two moves and a state that is not solved.
C14_Witness ==
    /\ scrArg = 2
    /\ scrResult # << >>
    /\ Len(scrResult[1].scramble) = 2
    /\ scrResult[1].state # createSolvedCube

====
